---- MODULE Spec2Model ----
(***************************************************************************)
(* Marble race: the undoable command history of the level editor           *)
(* (level_editor.py) and the race state machine (marble_race.py).          *)
(*                                                                         *)
(* HistSpec drives CommandHistory with the seven command classes.          *)
(* RaceSpec drives MarbleSimulation.run: events and frames.                *)
(* WorldSpec drives MarbleSimulation.run with the in-game editor events.   *)
(* EditorSpec drives LevelEditor.handle_event.                             *)
(***************************************************************************)
EXTENDS Integers, Sequences, FiniteSets, TLC

VARIABLES
    \* ---- level_editor.py: LevelEditor / CommandHistory ----
    walls,          \* LevelEditor.walls: list of (start, end) tuples
    platforms,      \* LevelEditor.platforms: list of references to dict objects
    objs,           \* the dict objects the references point to (id -> attributes)
    emitter,        \* LevelEditor.emitter
    undo_stack,     \* CommandHistory.undo_stack
    redo_stack,     \* CommandHistory.redo_stack
    raised,         \* an exception left CommandHistory.execute/undo/redo
    ret,            \* value returned by the last undo()/redo() call
    nexec,          \* number of CommandHistory.execute calls so far
    lastOps,        \* the last history calls, newest last (at most three)
    afterExec,      \* the level right after the last execute
    runBase,        \* the level before the current run execute^N undo^K
    runExec,        \* N of the current run
    runUndo,        \* K of the current run
    mode,               \* LevelEditor.mode
    selected_wall,      \* zero-based index, NoIndex for None
    selected_platform,  \* zero-based index, NoIndex for None
    selected_emitter,
    selected_handle,    \* <<index, "start" or "end">>, NoHandle for None
    dragging_emitter,
    drawing,
    draw_start,         \* a point, NoPos for None
    draw_end,
    grid_enabled,       \* grid.enabled
    editorEvent,        \* the last event handle_event took
    click_pos,          \* canvas position of the last canvas click
    call,               \* the arguments of a function called on its own
    result,             \* what the call returned (<<>> before the call)
    \* ---- marble_race.py: MarbleSimulation ----
    state,              \* "ready", "running", "finished" or "edit"
    prev_state,         \* state that toggle_editor left ("None" at first)
    start_visible,      \* start_button.visible
    reset_visible,      \* reset_button.visible
    sliders_visible,    \* slider.visible (set for all sliders together)
    timer_slider,       \* timer_slider.value, in clock units
    gravity_slider,     \* gravity_slider.value
    speed_slider,       \* speed_slider.value, in quarters
    emit_rate_slider,   \* emit_rate_slider.value, marbles per second
    marble_count_slider, \* marble_count_slider.value, in tenths
    bounce_slider,      \* bounce_slider.value, in hundredths
    gravity,            \* space.gravity[1]
    sim_speed,          \* in quarters; 0 until the first start
    time_limit,         \* in clock units; 0 until the first start
    emit_rate,
    marble_count,
    marble_queue,       \* pending marble definitions
    marbles,            \* marble records, in spawn order
    finished_rank,      \* ids of the marble records, in finish order
    space_bodies,       \* ids of the marbles whose body and shape are in space
    marbles_emitted,
    emit_accumulator,   \* in accumulator units (see AccUnitsPerSecond)
    elapsed,            \* pygame.time.get_ticks() - start_time at the next frame
    end_cause,          \* branch of update_physics that ended the race
    rank_at_check,      \* len(finished_rank) when the last frame reached its end check
    nticks,             \* update_physics calls since the last setup_simulation
    lastEvent,          \* the last event or frame handled by run
    raised_in,          \* method an exception left run from ("None" if none)
    level_index,        \* current_level_index, one-based
    level_walls,        \* list of (start, end) tuples, in halves of a pixel
    level_platforms,    \* list of platform dicts
    level_conveyors,    \* list of conveyor dicts
    wall_shapes,        \* handles of the wall segments created by rebuild_walls
    conveyor_shapes,    \* handles of the segments created by create_conveyors
    space_walls,        \* wall segments registered in self.space, in add order
    space_conveyors,    \* conveyor segments registered in self.space
    edited_file,        \* <<document>> of levels/edited.json, <<>> if absent
    editor_dragging,
    editor_start,
    editor_end,
    platform_template_index

uvars == <<mode, selected_wall, selected_platform, selected_emitter,
           selected_handle, dragging_emitter, drawing, draw_start, draw_end,
           grid_enabled, editorEvent, click_pos, call, result>>

evars == <<walls, platforms, objs, emitter, undo_stack, redo_stack, raised,
           ret, nexec, lastOps, afterExec, runBase, runExec, runUndo, uvars>>

rvars == <<state, prev_state, start_visible, reset_visible, sliders_visible,
           timer_slider, gravity_slider, speed_slider, emit_rate_slider,
           marble_count_slider, gravity, sim_speed, time_limit, emit_rate,
           marble_count, marble_queue, marbles, finished_rank, space_bodies,
           marbles_emitted, emit_accumulator, elapsed, end_cause,
           rank_at_check, nticks, lastEvent, bounce_slider, raised_in,
           level_index, level_walls, level_platforms, level_conveyors,
           wall_shapes, conveyor_shapes, space_walls, space_conveyors,
           edited_file, editor_dragging, editor_start, editor_end,
           platform_template_index>>

vars == <<evars, rvars>>

----------------------------------------------------------------------------
(* Bounds *)

MaxCmds == 2            \* CommandHistory.execute calls in one behaviour
MaxInitWalls == 2       \* walls of the level the editor starts with
MaxInitPlatforms == 1   \* platforms of the level the editor starts with

MaxMarbles == 3         \* largest marble count the count slider can give
MaxTimer == 5           \* largest time limit, in clock units
MaxFrameTime == 2       \* longest frame, in clock units
MaxLevelWalls == 2      \* walls the in-game editor lets a level grow to
MaxLevelPlatforms == 1  \* platforms in a level of the in-game editor
MaxEdits == 2           \* commands the level editor executes in one behaviour

(* Input domains *)

WallA == <<(<<0, 0>>), (<<20, 0>>)>>
WallB == <<(<<0, 0>>), (<<0, 20>>)>>
WallChoices == {WallA, WallB}

PropsP == [pos |-> <<0, 0>>, length |-> 50, angular_velocity |-> 2]
PropsQ == [pos |-> <<0, 0>>, length |-> 40, angular_velocity |-> 3]
PropsChoices == {PropsP, PropsQ}

EmitterPosChoices == {<<400, 80>>, <<20, 20>>}

SeqsUpTo(S, n) == UNION {[1..k -> S] : k \in 0..n}

----------------------------------------------------------------------------
(* level_io.py *)

get_default_emitter ==
    [pos |-> <<400, 80>>, angle |-> 90, width |-> 60, rate |-> 20,
     count |-> 100, speed |-> 50]

----------------------------------------------------------------------------
(* Python list operations used by the commands.  Indices are zero-based    *)
(* as in the source; 0 from an Index operator below means "not found"      *)
(* (ValueError), positions returned are one-based.                         *)

Min(a, b) == IF a < b THEN a ELSE b

\* list.insert(i, x) for i >= 0: an index past the end appends
PyInsert(s, i, x) ==
    LET k == Min(i, Len(s))
    IN SubSeq(s, 1, k) \o <<x>> \o SubSeq(s, k + 1, Len(s))

RemoveAt(s, k) == SubSeq(s, 1, k - 1) \o SubSeq(s, k + 1, Len(s))

\* list.index(x) on the wall tuples: the first element equal to x
WallIndex(ws, w) ==
    IF \E i \in 1..Len(ws) : ws[i] = w
    THEN CHOOSE i \in 1..Len(ws) : ws[i] = w /\ \A j \in 1..(i - 1) : ws[j] # w
    ELSE 0

\* dict == dict compares the contents, and list.index/remove also accept
\* the identical object
PlatEq(o, a, b) == a = b \/ o[a] = o[b]

PlatIndex(ps, o, p) ==
    IF \E i \in 1..Len(ps) : PlatEq(o, ps[i], p)
    THEN CHOOSE i \in 1..Len(ps) :
            PlatEq(o, ps[i], p) /\ \A j \in 1..(i - 1) : ~PlatEq(o, ps[j], p)
    ELSE 0

----------------------------------------------------------------------------
(* The level as the commands see it, and as a value (for comparisons) *)

Lvl(w, p, o, e) == [walls |-> w, platforms |-> p, objs |-> o, emitter |-> e]

CurLvl == Lvl(walls, platforms, objs, emitter)

\* walls, platforms (element by element, in order) and emitter
LevelValue(L) ==
    [walls |-> L.walls,
     platforms |-> [i \in 1..Len(L.platforms) |-> L.objs[L.platforms[i]]],
     emitter |-> L.emitter]

Level == LevelValue(CurLvl)

\* outcome of Command.execute / Command.undo
Done(L, c) == [ok |-> TRUE, level |-> L, cmd |-> c]
Raise(L, c) == [ok |-> FALSE, level |-> L, cmd |-> c]

----------------------------------------------------------------------------
(* The command classes *)

AddWallCommand(wall) == [kind |-> "AddWall", wall |-> wall]
DeleteWallCommand(wall, index) ==
    [kind |-> "DeleteWall", wall |-> wall, index |-> index]
AddPlatformCommand(platform) == [kind |-> "AddPlatform", platform |-> platform]
DeletePlatformCommand(platform, index) ==
    [kind |-> "DeletePlatform", platform |-> platform, index |-> index]
ModifyWallCommand(wall, old_start, old_end, new_start, new_end) ==
    [kind |-> "ModifyWall", wall |-> wall, old_start |-> old_start,
     old_end |-> old_end, new_start |-> new_start, new_end |-> new_end]
ModifyPlatformCommand(platform, old_props, new_props) ==
    [kind |-> "ModifyPlatform", platform |-> platform,
     old_props |-> old_props, new_props |-> new_props]
ModifyEmitterCommand(old_emitter, new_emitter) ==
    [kind |-> "ModifyEmitter", old_emitter |-> old_emitter,
     new_emitter |-> new_emitter]

AddWall_execute(c, L) ==
    Done([L EXCEPT !.walls = Append(@, c.wall)], c)

AddWall_undo(c, L) ==
    LET k == WallIndex(L.walls, c.wall)
    IN IF k = 0 THEN Raise(L, c)
       ELSE Done([L EXCEPT !.walls = RemoveAt(@, k)], c)

DeleteWall_execute(c, L) ==
    LET k == WallIndex(L.walls, c.wall)
    IN IF k = 0 THEN Raise(L, c)
       ELSE Done([L EXCEPT !.walls = RemoveAt(@, k)], c)

DeleteWall_undo(c, L) ==
    Done([L EXCEPT !.walls = PyInsert(@, c.index, c.wall)], c)

AddPlatform_execute(c, L) ==
    Done([L EXCEPT !.platforms = Append(@, c.platform)], c)

AddPlatform_undo(c, L) ==
    LET k == PlatIndex(L.platforms, L.objs, c.platform)
    IN IF k = 0 THEN Raise(L, c)
       ELSE Done([L EXCEPT !.platforms = RemoveAt(@, k)], c)

DeletePlatform_execute(c, L) ==
    LET k == PlatIndex(L.platforms, L.objs, c.platform)
    IN IF k = 0 THEN Raise(L, c)
       ELSE Done([L EXCEPT !.platforms = RemoveAt(@, k)], c)

DeletePlatform_undo(c, L) ==
    Done([L EXCEPT !.platforms = PyInsert(@, c.index, c.platform)], c)

ModifyWall_execute(c, L) ==
    LET k == WallIndex(L.walls, c.wall)
        w == <<c.new_start, c.new_end>>
    IN IF k = 0 THEN Raise(L, c)
       ELSE Done([L EXCEPT !.walls[k] = w], [c EXCEPT !.wall = w])

ModifyWall_undo(c, L) ==
    LET k == WallIndex(L.walls, c.wall)
        w == <<c.old_start, c.old_end>>
    IN IF k = 0 THEN Raise(L, c)
       ELSE Done([L EXCEPT !.walls[k] = w], [c EXCEPT !.wall = w])

ModifyPlatform_execute(c, L) ==
    LET k == PlatIndex(L.platforms, L.objs, c.platform)
    IN IF k = 0 THEN Raise(L, c)
       ELSE Done([L EXCEPT !.objs[L.platforms[k]] = c.new_props], c)

ModifyPlatform_undo(c, L) ==
    LET k == PlatIndex(L.platforms, L.objs, c.platform)
    IN IF k = 0 THEN Raise(L, c)
       ELSE Done([L EXCEPT !.objs[L.platforms[k]] = c.old_props], c)

ModifyEmitter_execute(c, L) == Done([L EXCEPT !.emitter = c.new_emitter], c)

ModifyEmitter_undo(c, L) == Done([L EXCEPT !.emitter = c.old_emitter], c)

\* dynamic dispatch of command.execute(editor) / command.undo(editor)
Command_execute(c, L) ==
    CASE c.kind = "AddWall" -> AddWall_execute(c, L)
      [] c.kind = "DeleteWall" -> DeleteWall_execute(c, L)
      [] c.kind = "AddPlatform" -> AddPlatform_execute(c, L)
      [] c.kind = "DeletePlatform" -> DeletePlatform_execute(c, L)
      [] c.kind = "ModifyWall" -> ModifyWall_execute(c, L)
      [] c.kind = "ModifyPlatform" -> ModifyPlatform_execute(c, L)
      [] c.kind = "ModifyEmitter" -> ModifyEmitter_execute(c, L)

Command_undo(c, L) ==
    CASE c.kind = "AddWall" -> AddWall_undo(c, L)
      [] c.kind = "DeleteWall" -> DeleteWall_undo(c, L)
      [] c.kind = "AddPlatform" -> AddPlatform_undo(c, L)
      [] c.kind = "DeletePlatform" -> DeletePlatform_undo(c, L)
      [] c.kind = "ModifyWall" -> ModifyWall_undo(c, L)
      [] c.kind = "ModifyPlatform" -> ModifyPlatform_undo(c, L)
      [] c.kind = "ModifyEmitter" -> ModifyEmitter_undo(c, L)

----------------------------------------------------------------------------
(* CommandHistory *)

SetLevel(L) ==
    /\ walls' = L.walls
    /\ platforms' = L.platforms
    /\ objs' = L.objs
    /\ emitter' = L.emitter

Pop(s) == SubSeq(s, 1, Len(s) - 1)
Top(s) == s[Len(s)]

\* variant of execute that forgets redo_stack.clear()
CommandHistory_execute_keepRedo(command, L) ==
    LET r == Command_execute(command, L)
    IN /\ SetLevel(r.level)
       /\ ret' = "None"
       /\ raised' = ~r.ok
       /\ undo_stack' = IF r.ok THEN Append(undo_stack, r.cmd) ELSE undo_stack
       /\ UNCHANGED redo_stack

\* CommandHistory.execute(command, editor); an exception from
\* command.execute leaves before the stacks are touched
CommandHistory_execute(command, L) ==
    LET r == Command_execute(command, L)
    IN /\ SetLevel(r.level)
       /\ ret' = "None"
       /\ IF r.ok
          THEN /\ undo_stack' = Append(undo_stack, r.cmd)
               /\ redo_stack' = <<>>
               /\ raised' = FALSE
          ELSE /\ UNCHANGED <<undo_stack, redo_stack>>
               /\ raised' = TRUE

\* variant of undo whose final return is True
CommandHistory_undo_returnsTrue(L) ==
    IF undo_stack # <<>>
    THEN LET r == Command_undo(Top(undo_stack), L)
         IN /\ undo_stack' = Pop(undo_stack)
            /\ SetLevel(r.level)
            /\ redo_stack' = IF r.ok THEN Append(redo_stack, r.cmd) ELSE redo_stack
            /\ ret' = IF r.ok THEN "True" ELSE "None"
            /\ raised' = ~r.ok
    ELSE /\ ret' = "True"
         /\ UNCHANGED <<walls, platforms, objs, emitter, undo_stack,
                        redo_stack, raised>>

\* CommandHistory.undo(editor); the command is popped before command.undo
\* runs, so an exception there loses it
CommandHistory_undo(L) ==
    IF undo_stack # <<>>
    THEN LET r == Command_undo(Top(undo_stack), L)
         IN /\ undo_stack' = Pop(undo_stack)
            /\ SetLevel(r.level)
            /\ IF r.ok
               THEN /\ redo_stack' = Append(redo_stack, r.cmd)
                    /\ ret' = "True"
                    /\ raised' = FALSE
               ELSE /\ UNCHANGED redo_stack
                    /\ ret' = "None"
                    /\ raised' = TRUE
    ELSE /\ ret' = "False"
         /\ UNCHANGED <<walls, platforms, objs, emitter, undo_stack,
                        redo_stack, raised>>

\* CommandHistory.redo(editor)
CommandHistory_redo(L) ==
    IF redo_stack # <<>>
    THEN LET r == Command_execute(Top(redo_stack), L)
         IN /\ redo_stack' = Pop(redo_stack)
            /\ SetLevel(r.level)
            /\ IF r.ok
               THEN /\ undo_stack' = Append(undo_stack, r.cmd)
                    /\ ret' = "True"
                    /\ raised' = FALSE
               ELSE /\ UNCHANGED undo_stack
                    /\ ret' = "None"
                    /\ raised' = TRUE
    ELSE /\ ret' = "False"
         /\ UNCHANGED <<walls, platforms, objs, emitter, undo_stack,
                        redo_stack, raised>>

----------------------------------------------------------------------------
(* Observers of a behaviour of the history (not program state) *)

LevelNext == LevelValue(Lvl(walls', platforms', objs', emitter'))

Last3(s) == IF Len(s) > 3 THEN SubSeq(s, Len(s) - 2, Len(s)) ELSE s

NoteExecute ==
    /\ nexec' = nexec + 1
    /\ lastOps' = Last3(Append(lastOps, "execute"))
    /\ afterExec' = LevelNext
    /\ IF runUndo = 0
       THEN /\ runExec' = runExec + 1
            /\ UNCHANGED <<runBase, runUndo>>
       ELSE /\ runBase' = Level
            /\ runExec' = 1
            /\ runUndo' = 0

NoteUndo ==
    /\ lastOps' = Last3(Append(lastOps, "undo"))
    /\ UNCHANGED <<nexec, afterExec>>
    /\ IF ret' = "True" /\ runUndo < runExec
       THEN /\ runUndo' = runUndo + 1
            /\ UNCHANGED <<runBase, runExec>>
       ELSE /\ runBase' = LevelNext
            /\ runExec' = 0
            /\ runUndo' = 0

NoteRedo ==
    /\ lastOps' = Last3(Append(lastOps, "redo"))
    /\ UNCHANGED <<nexec, afterExec>>
    /\ runBase' = LevelNext
    /\ runExec' = 0
    /\ runUndo' = 0

----------------------------------------------------------------------------
(* HistSpec: a caller that builds commands against the current level and   *)
(* runs them through the history                                           *)

HistInit ==
    /\ walls \in SeqsUpTo(WallChoices, MaxInitWalls)
    /\ objs \in SeqsUpTo(PropsChoices, MaxInitPlatforms)
    /\ platforms = [i \in 1..Len(objs) |-> i]
    /\ emitter = get_default_emitter
    /\ undo_stack = <<>>
    /\ redo_stack = <<>>
    /\ raised = FALSE
    /\ ret = "None"
    /\ nexec = 0
    /\ lastOps = <<>>
    /\ afterExec = LevelValue(Lvl(walls, platforms, objs, emitter))
    /\ runBase = LevelValue(Lvl(walls, platforms, objs, emitter))
    /\ runExec = 0
    /\ runUndo = 0

CanExecute == ~raised /\ nexec < MaxCmds

ExecAddWall ==
    /\ CanExecute
    /\ \E w \in WallChoices :
          CommandHistory_execute(AddWallCommand(w), CurLvl)
    /\ NoteExecute
    /\ UNCHANGED <<uvars, rvars>>

ExecDeleteWall ==
    /\ CanExecute
    /\ \E i \in 1..Len(walls) :
          CommandHistory_execute(DeleteWallCommand(walls[i], i - 1), CurLvl)
    /\ NoteExecute
    /\ UNCHANGED <<uvars, rvars>>

\* the caller creates the platform dict, then the command that holds it
ExecAddPlatform ==
    /\ CanExecute
    /\ \E pr \in PropsChoices :
          CommandHistory_execute(AddPlatformCommand(Len(objs) + 1),
                                 [CurLvl EXCEPT !.objs = Append(@, pr)])
    /\ NoteExecute
    /\ UNCHANGED <<uvars, rvars>>

ExecDeletePlatform ==
    /\ CanExecute
    /\ \E i \in 1..Len(platforms) :
          CommandHistory_execute(DeletePlatformCommand(platforms[i], i - 1),
                                 CurLvl)
    /\ NoteExecute
    /\ UNCHANGED <<uvars, rvars>>

ExecModifyWall ==
    /\ CanExecute
    /\ \E i \in 1..Len(walls), w \in WallChoices :
          CommandHistory_execute(
              ModifyWallCommand(walls[i], walls[i][1], walls[i][2], w[1], w[2]),
              CurLvl)
    /\ NoteExecute
    /\ UNCHANGED <<uvars, rvars>>

ExecModifyPlatform ==
    /\ CanExecute
    /\ \E i \in 1..Len(platforms), pr \in PropsChoices :
          CommandHistory_execute(
              ModifyPlatformCommand(platforms[i], objs[platforms[i]], pr),
              CurLvl)
    /\ NoteExecute
    /\ UNCHANGED <<uvars, rvars>>

ExecModifyEmitter ==
    /\ CanExecute
    /\ \E p \in EmitterPosChoices :
          CommandHistory_execute(
              ModifyEmitterCommand(emitter, [emitter EXCEPT !.pos = p]),
              CurLvl)
    /\ NoteExecute
    /\ UNCHANGED <<uvars, rvars>>

Undo ==
    /\ ~raised
    /\ CommandHistory_undo(CurLvl)
    /\ NoteUndo
    /\ UNCHANGED <<uvars, rvars>>

Redo ==
    /\ ~raised
    /\ CommandHistory_redo(CurLvl)
    /\ NoteRedo
    /\ UNCHANGED <<uvars, rvars>>

HistNext ==
    \/ ExecAddWall
    \/ ExecDeleteWall
    \/ ExecAddPlatform
    \/ ExecDeletePlatform
    \/ ExecModifyWall
    \/ ExecModifyPlatform
    \/ ExecModifyEmitter
    \/ Undo
    \/ Redo


----------------------------------------------------------------------------
(* Properties of the command history (HistSpec) *)

LastOp(ops) == IF ops = <<>> THEN "none" ELSE ops[Len(ops)]

StacksAndLevelKept ==
    /\ LevelNext = Level
    /\ walls' = walls
    /\ platforms' = platforms
    /\ objs' = objs
    /\ emitter' = emitter
    /\ undo_stack' = undo_stack
    /\ redo_stack' = redo_stack

\* C1: after N executes followed by N undos (N > 0) the walls, the
\* platforms (element by element, in order) and the emitter equal their
\* state before the sequence.
RoundTripLaw ==
    (~raised /\ runExec > 0 /\ runUndo = runExec) => Level = runBase

\* C2: right after an execute (whatever undos came before it) the redo
\* stack is empty, and a redo() called then returns False and changes
\* neither the level nor the two stacks.
HistoryInvalidation ==
    [][(LastOp(lastOps) = "execute" /\ ~raised) =>
          /\ redo_stack = <<>>
          /\ (LastOp(lastOps') = "redo" =>
                 ret' = "False" /\ ~raised' /\ StacksAndLevelKept)]_vars

RedoFailedAfterInvalidation ==
    /\ lastOps = <<"undo", "execute", "redo">>
    /\ ret = "False"
    /\ undo_stack # <<>>

\* C3: undo() on an empty undo stack and redo() on an empty redo stack
\* return False, raise nothing and leave walls, platforms, emitter and
\* both stacks unchanged.
EmptyStackIsNoOp ==
    [][/\ (undo_stack = <<>> /\ LastOp(lastOps') = "undo" /\ ~raised) =>
             (ret' = "False" /\ ~raised' /\ StacksAndLevelKept)
       /\ (redo_stack = <<>> /\ LastOp(lastOps') = "redo" /\ ~raised) =>
             (ret' = "False" /\ ~raised' /\ StacksAndLevelKept)]_vars

UndoAndRedoOnEmptyStacks ==
    /\ lastOps = <<"undo", "redo">>
    /\ nexec = 0
    /\ ret = "False"
    /\ undo_stack = <<>>
    /\ redo_stack = <<>>

\* C4: for a command just executed, undo followed by redo restores the
\* level to exactly the state right after the execute.
UndoRedoRestores ==
    (lastOps = <<"execute", "undo", "redo">> /\ ~raised) => Level = afterExec

----------------------------------------------------------------------------
(* marble_race.py: configuration *)

FPS == 60

\* Numbers of the race.  speed values are kept in quarters (3 is 0.75),
\* the marble-count slider in tenths (25 is 2.5), and emit_accumulator in
\* units of 1/AccUnitsPerSecond seconds, so that sim_speed / FPS and
\* 1.0 / emit_rate are exact integers for every value below.  The clock
\* (elapsed, time_limit) is counted in units of which a frame takes at
\* least one (clock.tick(FPS) at the end of each loop iteration).
AccUnitsPerSecond == 4 * FPS * 5

SpeedChoices == {2, 3, 6}
RateChoices == {20, 50}
GravityChoices == {350, 1000}
TimerChoices == {2, MaxTimer}
MarbleCountChoices == {10, 10 * MaxMarbles - 5, 10 * MaxMarbles}
BounceChoices == {90, 150}

\* int(slider.value) of a value kept in tenths
PyInt10(v) == v \div 10

----------------------------------------------------------------------------
(* Level files and level_io.py.  World coordinates and lengths are kept in  *)
(* halves of a pixel; a level file holds whole pixels.                      *)

\* int(round(x)) of save_level, on a value in halves: round half to even
PyRound2(v) ==
    LET q == v \div 2
    IN IF v % 2 = 0 THEN q
       ELSE IF q % 2 = 0 THEN q ELSE q + 1

\* float(x) of load_level, from whole pixels to halves
PyFloat2(n) == 2 * n

SavePoint(p) == <<PyRound2(p[1]), PyRound2(p[2])>>

LoadPoint(p) == <<PyFloat2(p[1]), PyFloat2(p[2])>>

\* the walls, platforms and conveyors of the document save_level writes
save_level(ws, ps, cs) ==
    [walls |-> [i \in 1..Len(ws) |-> <<SavePoint(ws[i][1]), SavePoint(ws[i][2])>>],
     platforms |-> [i \in 1..Len(ps) |->
                       [pos |-> SavePoint(ps[i].pos),
                        length |-> PyRound2(ps[i].length),
                        angular_velocity |-> ps[i].angular_velocity]],
     conveyors |-> [i \in 1..Len(cs) |->
                       [start |-> SavePoint(cs[i].start),
                        end |-> SavePoint(cs[i].end),
                        speed |-> cs[i].speed]]]

\* the walls, platforms and conveyors load_level returns for a document
load_level(doc) ==
    [walls |-> [i \in 1..Len(doc.walls) |->
                   <<LoadPoint(doc.walls[i][1]), LoadPoint(doc.walls[i][2])>>],
     platforms |-> [i \in 1..Len(doc.platforms) |->
                       [pos |-> LoadPoint(doc.platforms[i].pos),
                        length |-> PyFloat2(doc.platforms[i].length),
                        angular_velocity |-> doc.platforms[i].angular_velocity]],
     conveyors |-> [i \in 1..Len(doc.conveyors) |->
                       [start |-> LoadPoint(doc.conveyors[i].start),
                        end |-> LoadPoint(doc.conveyors[i].end),
                        speed |-> doc.conveyors[i].speed]]]

\* list_levels(): the documents in the levels directory, sorted by stem;
\* the first one is default.json
LevelFiles ==
    << [walls |-> << <<(<<10, 10>>), (<<30, 10>>)>> >>,
        platforms |-> <<>>,
        conveyors |-> <<>>],
       [walls |-> << <<(<<10, 10>>), (<<30, 10>>)>>,
                     <<(<<10, 40>>), (<<30, 40>>)>> >>,
        platforms |-> <<>>,
        conveyors |-> << [start |-> <<20, 50>>, end |-> <<40, 50>>,
                          speed |-> 100] >>] >>

DefaultLevelIndex == 1

\* platform_templates: length (halves of a pixel) and angular velocity
platform_templates ==
    << [length |-> 100, angular_velocity |-> 2],
       [length |-> 100, angular_velocity |-> -2],
       [length |-> 80, angular_velocity |-> 3] >>

\* None where the source holds a point or None
NoPos == <<>>

\* screen_to_world(event.pos) for the mouse positions used: the points
\* (10.5, 10) and (31.5, 10) of the world, or None for a position outside
\* the viewport; the left button is pressed at the first point only
WorldPosChoices == {<<21, 20>>, <<63, 20>>}

MousePosChoices == WorldPosChoices \cup {NoPos}

PressPosChoices == {<<21, 20>>, NoPos}

----------------------------------------------------------------------------
(* Geometry of marble_race.py, on squared distances.  A squared distance is *)
(* a fraction <<numerator, denominator>> with a positive denominator, in     *)
(* squared halves of a pixel.                                                *)

\* f < g and f <= g, on the whole parts first and then on the remainders
FracLT(f, g) ==
    \/ f[1] \div f[2] < g[1] \div g[2]
    \/ /\ f[1] \div f[2] = g[1] \div g[2]
       /\ (f[1] % f[2]) * g[2] < (g[1] % g[2]) * f[2]

FracLE(f, g) == ~FracLT(g, f)

SqDist(a, b) == (b[1] - a[1]) * (b[1] - a[1]) + (b[2] - a[2]) * (b[2] - a[2])

\* distance(a, b) > 4
FartherThan4(a, b) == SqDist(a, b) > 8 * 8

\* distance_to_segment(p, a, b), squared
distance_to_segment(p, a, b) ==
    LET abx == b[1] - a[1]
        aby == b[2] - a[2]
        ab_len_sq == abx * abx + aby * aby
        dot == (p[1] - a[1]) * abx + (p[2] - a[2]) * aby
    IN IF ab_len_sq = 0 THEN <<SqDist(p, a), 1>>
       ELSE IF dot <= 0 THEN <<SqDist(p, a), 1>>
       ELSE IF dot >= ab_len_sq THEN <<SqDist(p, b), 1>>
       ELSE LET num == SqDist(p, a) * ab_len_sq - dot * dot
            IN IF num % ab_len_sq = 0
               THEN <<num \div ab_len_sq, 1>>
               ELSE <<num, ab_len_sq>>

\* best_dist <= 12
Within12(f) == FracLE(f, <<24 * 24, 1>>)

\* the loop of delete_wall_at / delete_platform_at over the candidate
\* distances ds: the first index of the smallest distance if that is
\* within 12 (best_dist starts at 9999), else 0
BestWithin12(ds) ==
    IF \E i \in 1..Len(ds) : Within12(ds[i])
    THEN CHOOSE i \in 1..Len(ds) :
            /\ \A j \in 1..Len(ds) : FracLE(ds[i], ds[j])
            /\ \A j \in 1..(i - 1) : FracLT(ds[i], ds[j])
    ELSE 0

WallDistances(ws, pos) ==
    [i \in 1..Len(ws) |-> distance_to_segment(pos, ws[i][1], ws[i][2])]

PlatformDistances(ps, pos) ==
    [i \in 1..Len(ps) |->
        distance_to_segment(pos,
                            <<ps[i].pos[1] - ps[i].length, ps[i].pos[2]>>,
                            <<ps[i].pos[1] + ps[i].length, ps[i].pos[2]>>)]

----------------------------------------------------------------------------
(* The static shapes of the physics world.  A shape handle records the      *)
(* geometry it was built from and whether the space it was added to is      *)
(* still self.space (cur).  Space.remove of a shape that is not in the      *)
(* space raises.                                                            *)

Shape(g) == [geom |-> g, cur |-> TRUE]

World(sw, sc, ws, cs) ==
    [space_walls |-> sw, space_conveyors |-> sc, wall_shapes |-> ws,
     conveyor_shapes |-> cs, raised |-> "None"]

CurWorld == World(space_walls, space_conveyors, wall_shapes, conveyor_shapes)

SetWorld(W) ==
    /\ space_walls' = W.space_walls
    /\ space_conveyors' = W.space_conveyors
    /\ wall_shapes' = W.wall_shapes
    /\ conveyor_shapes' = W.conveyor_shapes

FirstIndex(s, x) ==
    IF \E i \in 1..Len(s) : s[i] = x
    THEN CHOOSE i \in 1..Len(s) : s[i] = x /\ \A j \in 1..(i - 1) : s[j] # x
    ELSE 0

\* for shape in shapes: self.space.remove(shape), on the registered
\* geometries reg; stops at the first remove that raises
RECURSIVE RemoveShapes(_, _, _)
RemoveShapes(reg, shapes, i) ==
    IF i > Len(shapes) THEN [reg |-> reg, ok |-> TRUE]
    ELSE IF shapes[i].cur /\ FirstIndex(reg, shapes[i].geom) # 0
         THEN RemoveShapes(RemoveAt(reg, FirstIndex(reg, shapes[i].geom)),
                           shapes, i + 1)
         ELSE [reg |-> reg, ok |-> FALSE]

\* self.space = pymunk.Space(): nothing is registered in the new space
NewSpace(W) ==
    [W EXCEPT !.space_walls = <<>>,
              !.space_conveyors = <<>>,
              !.wall_shapes = [i \in 1..Len(@) |-> [@[i] EXCEPT !.cur = FALSE]],
              !.conveyor_shapes = [i \in 1..Len(@) |-> [@[i] EXCEPT !.cur = FALSE]]]

rebuild_walls(W, lw) ==
    LET r == IF W.wall_shapes # <<>>
             THEN RemoveShapes(W.space_walls, W.wall_shapes, 1)
             ELSE [reg |-> W.space_walls, ok |-> TRUE]
    IN IF r.ok
       THEN [W EXCEPT !.space_walls = r.reg \o lw,
                      !.wall_shapes = [i \in 1..Len(lw) |-> Shape(lw[i])]]
       ELSE [W EXCEPT !.space_walls = r.reg, !.raised = "rebuild_walls"]

create_conveyors(W, lc) ==
    LET r == IF W.conveyor_shapes # <<>>
             THEN RemoveShapes(W.space_conveyors, W.conveyor_shapes, 1)
             ELSE [reg |-> W.space_conveyors, ok |-> TRUE]
    IN IF r.ok
       THEN [W EXCEPT !.space_conveyors = r.reg \o lc,
                      !.conveyor_shapes = [i \in 1..Len(lc) |-> Shape(lc[i])]]
       ELSE [W EXCEPT !.space_conveyors = r.reg, !.raised = "create_conveyors"]

\* the level model of MarbleSimulation
LevelModel(lw, lp, lc) == [walls |-> lw, platforms |-> lp, conveyors |-> lc]

CurLevelModel == LevelModel(level_walls, level_platforms, level_conveyors)

SetLevelModel(L) ==
    /\ level_walls' = L.walls
    /\ level_platforms' = L.platforms
    /\ level_conveyors' = L.conveyors

\* MarbleSimulation.load_level: the level of the document, and the walls
\* rebuilt in the world W
MarbleSimulation_load_level(W, doc) ==
    [level |-> load_level(doc), world |-> rebuild_walls(W, load_level(doc).walls)]

----------------------------------------------------------------------------
(* MarbleSimulation *)

\* prepare_marble_queue_with_count: count definitions, ids 1..count in
\* queue order (shape, colour, radius and name are not represented)
prepare_marble_queue_with_count(count) == [i \in 1..count |-> [id |-> i]]

\* the simulation fields that emit_marble and update_physics work on;
\* raised names the method in which Space.remove raised, if any
Sim(q, m, sp, n, acc, fr) ==
    [marble_queue |-> q, marbles |-> m, space_bodies |-> sp,
     marbles_emitted |-> n, emit_accumulator |-> acc, finished_rank |-> fr,
     raised |-> "None"]

CurSim == Sim(marble_queue, marbles, space_bodies, marbles_emitted,
              emit_accumulator, finished_rank)

SetSim(S) ==
    /\ marble_queue' = S.marble_queue
    /\ marbles' = S.marbles
    /\ space_bodies' = S.space_bodies
    /\ marbles_emitted' = S.marbles_emitted
    /\ emit_accumulator' = S.emit_accumulator
    /\ finished_rank' = S.finished_rank

\* variant of emit_marble that takes the newest definition of the queue
emit_marble_popLast(S) ==
    IF S.marble_queue = <<>>
    THEN S
    ELSE LET marble_def == S.marble_queue[Len(S.marble_queue)]
         IN [S EXCEPT
                !.marble_queue = SubSeq(@, 1, Len(@) - 1),
                !.space_bodies = @ \cup {marble_def.id},
                !.marbles = Append(@, [id |-> marble_def.id, active |-> TRUE,
                                       tied_for_last |-> FALSE,
                                       elasticity |-> bounce_slider]),
                !.marbles_emitted = @ + 1]

\* variant of emit_marble that reads the definition without popping it
emit_marble_noPop(S) ==
    IF S.marble_queue = <<>>
    THEN S
    ELSE LET marble_def == Head(S.marble_queue)
         IN [S EXCEPT
                !.space_bodies = @ \cup {marble_def.id},
                !.marbles = Append(@, [id |-> marble_def.id, active |-> TRUE,
                                       tied_for_last |-> FALSE,
                                       elasticity |-> bounce_slider]),
                !.marbles_emitted = @ + 1]

emit_marble(S) ==
    IF S.marble_queue = <<>>
    THEN S
    ELSE LET marble_def == Head(S.marble_queue)
         IN [S EXCEPT
                !.marble_queue = Tail(@),
                !.space_bodies = @ \cup {marble_def.id},
                !.marbles = Append(@, [id |-> marble_def.id, active |-> TRUE,
                                       tied_for_last |-> FALSE,
                                       elasticity |-> bounce_slider]),
                !.marbles_emitted = @ + 1]

\* self.emit_accumulator >= emit_interval on IEEE-754 doubles.  The exact
\* values differ by a multiple of 1/AccUnitsPerSecond or are equal; when
\* they are equal, the double sum of dt = sim_speed / FPS is one ulp short
\* of 1.0 / emit_rate for the speeds in RoundsShort (0.5: 6 * (0.5 / 60)
\* gives 0.049999999999999996 < 0.05) and reaches it for the others, for
\* every rate in RateChoices and the first 24 ticks.
RoundsShort == {2}

FloatGE(acc, emit_interval, speed) ==
    acc > emit_interval \/ (acc = emit_interval /\ speed \notin RoundsShort)

\* while self.emit_accumulator >= emit_interval and self.marble_queue
RECURSIVE EmitLoop(_, _, _)
EmitLoop(S, emit_interval, speed) ==
    IF FloatGE(S.emit_accumulator, emit_interval, speed) /\ S.marble_queue # <<>>
    THEN EmitLoop([emit_marble(S) EXCEPT !.emit_accumulator = @ - emit_interval],
                  emit_interval, speed)
    ELSE S

\* the emission block of update_physics
EmitStep(S, dt, emit_interval, speed) ==
    IF S.marble_queue # <<>>
    THEN EmitLoop([S EXCEPT !.emit_accumulator = @ + dt], emit_interval, speed)
    ELSE S

\* m['active'] = False; self.space.remove(m['body'], m['shape']) for the
\* marble record i of S, in method f: raises when the body is not in the
\* space
RemoveMarble(S, i, f) ==
    IF S.marbles[i].id \in S.space_bodies
    THEN [S EXCEPT !.marbles[i].active = FALSE,
                   !.space_bodies = @ \ {S.marbles[i].id}]
    ELSE [S EXCEPT !.marbles[i].active = FALSE, !.raised = f]

\* variant of the exit scan without the test of m['active']
RECURSIVE ExitScan_noActiveTest(_, _, _)
ExitScan_noActiveTest(S, i, below) ==
    IF i < 1 \/ S.raised # "None" THEN S
    ELSE LET m == S.marbles[i]
             R == RemoveMarble(S, i, "update_physics")
         IN IF m.id \in below
            THEN ExitScan_noActiveTest(
                     [R EXCEPT !.finished_rank = Append(@, m.id)],
                     i - 1, below)
            ELSE ExitScan_noActiveTest(S, i - 1, below)

\* variant of the exit scan that leaves the body in the space
RECURSIVE ExitScan_noRemove(_, _, _)
ExitScan_noRemove(S, i, below) ==
    IF i < 1 \/ S.raised # "None" THEN S
    ELSE LET m == S.marbles[i]
         IN IF m.active /\ m.id \in below
            THEN ExitScan_noRemove(
                     [S EXCEPT !.marbles[i].active = FALSE,
                               !.finished_rank = Append(@, m.id)],
                     i - 1, below)
            ELSE ExitScan_noRemove(S, i - 1, below)

\* for i in range(len(self.marbles) - 1, -1, -1): marbles below the lower
\* bound leave the space and join the rank; below is the set of ids whose
\* body.position.y > HEIGHT + MARBLE_RADIUS after this step
RECURSIVE ExitScan(_, _, _)
ExitScan(S, i, below) ==
    IF i < 1 \/ S.raised # "None" THEN S
    ELSE LET m == S.marbles[i]
             R == RemoveMarble(S, i, "update_physics")
         IN IF m.active /\ m.id \in below
            THEN ExitScan(IF R.raised = "None"
                          THEN [R EXCEPT !.finished_rank = Append(@, m.id)]
                          ELSE R,
                          i - 1, below)
            ELSE ExitScan(S, i - 1, below)

\* variant of the timeout loop that does not append to finished_rank
RECURSIVE TimeoutScan_noAppend(_, _)
TimeoutScan_noAppend(S, i) ==
    IF i > Len(S.marbles) \/ S.raised # "None" THEN S
    ELSE LET m == S.marbles[i]
             R == RemoveMarble(S, i, "end_with_timeout")
         IN IF m.active
            THEN TimeoutScan_noAppend(
                     [R EXCEPT !.marbles[i].tied_for_last = TRUE], i + 1)
            ELSE TimeoutScan_noAppend(S, i + 1)

\* variant of the timeout loop that does not set tied_for_last
RECURSIVE TimeoutScan_noFlag(_, _)
TimeoutScan_noFlag(S, i) ==
    IF i > Len(S.marbles) \/ S.raised # "None" THEN S
    ELSE LET m == S.marbles[i]
             R == RemoveMarble(S, i, "end_with_timeout")
         IN IF m.active
            THEN TimeoutScan_noFlag(
                     IF R.raised = "None"
                     THEN [R EXCEPT !.finished_rank = Append(@, m.id)]
                     ELSE R,
                     i + 1)
            ELSE TimeoutScan_noFlag(S, i + 1)

\* end_with_timeout: for m in self.marbles, front to back
RECURSIVE TimeoutScan(_, _)
TimeoutScan(S, i) ==
    IF i > Len(S.marbles) \/ S.raised # "None" THEN S
    ELSE LET m == S.marbles[i]
             R == RemoveMarble(S, i, "end_with_timeout")
         IN IF m.active
            THEN TimeoutScan(
                     IF R.raised = "None"
                     THEN [R EXCEPT !.marbles[i].tied_for_last = TRUE,
                                    !.finished_rank = Append(@, m.id)]
                     ELSE [R EXCEPT !.marbles[i].tied_for_last = TRUE],
                     i + 1)
            ELSE TimeoutScan(S, i + 1)

end_with_timeout(S) ==
    LET T == TimeoutScan(S, 1)
    IN /\ SetSim(T)
       /\ raised_in' = T.raised
       /\ IF T.raised = "None"
          THEN /\ state' = "finished"
               /\ reset_visible' = TRUE
               /\ end_cause' = "timeout"
          ELSE UNCHANGED <<state, reset_visible, end_cause>>

\* variant of the end check that tests the timeout first
EndCheck_timeoutFirst(S) ==
    LET time_remaining == IF time_limit - elapsed > 0
                          THEN time_limit - elapsed ELSE 0
    IN IF S.raised # "None"
       THEN /\ SetSim(S)
            /\ raised_in' = S.raised
            /\ UNCHANGED <<state, reset_visible, end_cause>>
       ELSE IF time_remaining <= 0
            THEN end_with_timeout(S)
            ELSE IF Len(S.finished_rank) = marble_count
                 THEN /\ SetSim(S)
                      /\ state' = "finished"
                      /\ reset_visible' = TRUE
                      /\ end_cause' = "completion"
                      /\ UNCHANGED raised_in
                 ELSE /\ SetSim(S)
                      /\ UNCHANGED <<state, reset_visible, end_cause,
                                     raised_in>>

\* variant of the end check without the timeout branch
EndCheck_noTimeout(S) ==
    IF S.raised # "None"
    THEN /\ SetSim(S)
         /\ raised_in' = S.raised
         /\ UNCHANGED <<state, reset_visible, end_cause>>
    ELSE IF Len(S.finished_rank) = marble_count
         THEN /\ SetSim(S)
              /\ state' = "finished"
              /\ reset_visible' = TRUE
              /\ end_cause' = "completion"
              /\ UNCHANGED raised_in
         ELSE /\ SetSim(S)
              /\ UNCHANGED <<state, reset_visible, end_cause, raised_in>>

\* the end check of update_physics, on the simulation S left by the scan
\* (not reached when the scan raised)
EndCheck(S) ==
    LET time_remaining == IF time_limit - elapsed > 0
                          THEN time_limit - elapsed ELSE 0
    IN IF S.raised # "None"
       THEN /\ SetSim(S)
            /\ raised_in' = S.raised
            /\ UNCHANGED <<state, reset_visible, end_cause>>
       ELSE IF Len(S.finished_rank) = marble_count
            THEN /\ SetSim(S)
                 /\ state' = "finished"
                 /\ reset_visible' = TRUE
                 /\ end_cause' = "completion"
                 /\ UNCHANGED raised_in
            ELSE IF time_remaining <= 0
                 THEN end_with_timeout(S)
                 ELSE /\ SetSim(S)
                      /\ UNCHANGED <<state, reset_visible, end_cause,
                                     raised_in>>

update_physics(below) ==
    LET dt == (sim_speed * AccUnitsPerSecond) \div (4 * FPS)
        emit_interval == AccUnitsPerSecond \div emit_rate
        S1 == EmitStep(CurSim, dt, emit_interval, sim_speed)
        S2 == ExitScan(S1, Len(S1.marbles), below)
    IN /\ EndCheck(S2)
       /\ rank_at_check' = Len(S2.finished_rank)
       /\ nticks' = nticks + 1

sliderVars == <<timer_slider, gravity_slider, speed_slider, emit_rate_slider,
                marble_count_slider, bounce_slider>>

levelVars == <<level_index, level_walls, level_platforms, level_conveyors>>

worldVars == <<wall_shapes, conveyor_shapes, space_walls, space_conveyors>>

dragVars == <<editor_dragging, editor_start, editor_end>>

simVars == <<marble_queue, marbles, finished_rank, space_bodies,
             marbles_emitted, emit_accumulator>>

\* variant of setup_simulation that keeps the emission accumulator
setup_simulation_keepAccumulator(L, W, idx) ==
    /\ gravity' = 0
    /\ marbles' = <<>>
    /\ finished_rank' = <<>>
    /\ space_bodies' = {}
    /\ marbles_emitted' = 0
    /\ emit_accumulator' = emit_accumulator
    /\ emit_rate' = emit_rate_slider
    /\ marble_count' = PyInt10(marble_count_slider)
    /\ nticks' = 0
    /\ elapsed' = 0
    /\ end_cause' = "none"
    /\ rank_at_check' = 0
    /\ \E r \in 1..Len(LevelFiles) :
          LET W0 == [NewSpace(W) EXCEPT !.wall_shapes = <<>>]
              loaded == MarbleSimulation_load_level(W0, LevelFiles[r])
              L1 == IF L.walls = <<>> THEN loaded.level ELSE L
              W1 == IF L.walls = <<>> THEN loaded.world
                    ELSE rebuild_walls(W0, L.walls)
              W2 == IF W1.raised = "None"
                    THEN create_conveyors(W1, L1.conveyors)
                    ELSE W1
          IN /\ (L.walls # <<>>) => (r = idx)
             /\ level_index' = r
             /\ SetLevelModel(L1)
             /\ SetWorld(W2)
             /\ raised_in' = W2.raised
             /\ marble_queue' =
                   IF W2.raised = "None"
                   THEN prepare_marble_queue_with_count(PyInt10(marble_count_slider))
                   ELSE <<>>

\* setup_simulation for the level model L, the world W and the level index
\* idx it is called with: a new space, empty bookkeeping, the level of a
\* random file when L has no walls, the static shapes, and a queue for the
\* count the slider shows (not reached when a remove raised); elapsed,
\* which only a running race reads, restarts from 0
setup_simulation(L, W, idx) ==
    /\ gravity' = 0
    /\ marbles' = <<>>
    /\ finished_rank' = <<>>
    /\ space_bodies' = {}
    /\ marbles_emitted' = 0
    /\ emit_accumulator' = 0
    /\ emit_rate' = emit_rate_slider
    /\ marble_count' = PyInt10(marble_count_slider)
    /\ nticks' = 0
    /\ elapsed' = 0
    /\ end_cause' = "none"
    /\ rank_at_check' = 0
    /\ \E r \in 1..Len(LevelFiles) :
          LET W0 == [NewSpace(W) EXCEPT !.wall_shapes = <<>>]
              loaded == MarbleSimulation_load_level(W0, LevelFiles[r])
              L1 == IF L.walls = <<>> THEN loaded.level ELSE L
              W1 == IF L.walls = <<>> THEN loaded.world
                    ELSE rebuild_walls(W0, L.walls)
              W2 == IF W1.raised = "None"
                    THEN create_conveyors(W1, L1.conveyors)
                    ELSE W1
          IN /\ (L.walls # <<>>) => (r = idx)
             /\ level_index' = r
             /\ SetLevelModel(L1)
             /\ SetWorld(W2)
             /\ raised_in' = W2.raised
             /\ marble_queue' =
                   IF W2.raised = "None"
                   THEN prepare_marble_queue_with_count(PyInt10(marble_count_slider))
                   ELSE <<>>

reset_simulation(L, W, idx) ==
    /\ state' = "ready"
    /\ start_visible' = TRUE
    /\ reset_visible' = FALSE
    /\ setup_simulation(L, W, idx)

\* variant of start_simulation that keeps the marble_count of the last setup
start_simulation_staleCount ==
    /\ state' = "running"
    /\ gravity' = gravity_slider
    /\ sim_speed' = speed_slider
    /\ time_limit' = timer_slider
    /\ emit_rate' = emit_rate_slider
    /\ marble_queue' = prepare_marble_queue_with_count(PyInt10(marble_count_slider))
    /\ marbles' = [i \in 1..Len(marbles) |->
                      [marbles[i] EXCEPT !.elasticity = bounce_slider]]
    /\ start_visible' = FALSE
    /\ elapsed' = 0
    /\ UNCHANGED <<prev_state, reset_visible, sliders_visible,
                   finished_rank, space_bodies, marbles_emitted, marble_count,
                   emit_accumulator, end_cause, rank_at_check, nticks,
                   raised_in, levelVars, worldVars, dragVars,
                   platform_template_index, edited_file>>

\* variant of start_simulation that keeps the queue of the last setup
start_simulation_keepQueue ==
    /\ state' = "running"
    /\ gravity' = gravity_slider
    /\ sim_speed' = speed_slider
    /\ time_limit' = timer_slider
    /\ emit_rate' = emit_rate_slider
    /\ marble_count' = PyInt10(marble_count_slider)
    /\ marbles' = [i \in 1..Len(marbles) |->
                      [marbles[i] EXCEPT !.elasticity = bounce_slider]]
    /\ start_visible' = FALSE
    /\ elapsed' = 0
    /\ UNCHANGED <<prev_state, reset_visible, sliders_visible, marble_queue,
                   finished_rank, space_bodies, marbles_emitted,
                   emit_accumulator, end_cause, rank_at_check, nticks,
                   raised_in, levelVars, worldVars, dragVars,
                   platform_template_index, edited_file>>

start_simulation ==
    /\ state' = "running"
    /\ gravity' = gravity_slider
    /\ sim_speed' = speed_slider
    /\ time_limit' = timer_slider
    /\ emit_rate' = emit_rate_slider
    /\ marble_count' = PyInt10(marble_count_slider)
    /\ marble_queue' = prepare_marble_queue_with_count(PyInt10(marble_count_slider))
    /\ marbles' = [i \in 1..Len(marbles) |->
                      [marbles[i] EXCEPT !.elasticity = bounce_slider]]
    /\ start_visible' = FALSE
    /\ elapsed' = 0
    /\ UNCHANGED <<prev_state, reset_visible, sliders_visible,
                   finished_rank, space_bodies, marbles_emitted,
                   emit_accumulator, end_cause, rank_at_check, nticks,
                   raised_in, levelVars, worldVars, dragVars,
                   platform_template_index, edited_file>>

\* what entering the editor leaves alone
EnterEditUnchanged ==
    UNCHANGED <<sim_speed, time_limit, emit_rate, marble_count, simVars,
                elapsed, end_cause, rank_at_check, nticks, raised_in,
                levelVars, worldVars, dragVars>>

\* variant of toggle_editor that does not record the state it leaves
toggle_editor_noPrev ==
    IF state # "edit"
    THEN /\ state' = "edit"
         /\ gravity' = 0
         /\ start_visible' = FALSE
         /\ reset_visible' = FALSE
         /\ sliders_visible' = FALSE
         /\ UNCHANGED prev_state
         /\ EnterEditUnchanged
    ELSE /\ editor_dragging' = FALSE
         /\ editor_start' = NoPos
         /\ editor_end' = NoPos
         /\ sliders_visible' = TRUE
         /\ reset_simulation(CurLevelModel, CurWorld, level_index)
         /\ UNCHANGED <<prev_state, sim_speed, time_limit>>

\* variant of toggle_editor that goes back to the state it left
toggle_editor_backToPrev ==
    IF state # "edit"
    THEN /\ prev_state' = state
         /\ state' = "edit"
         /\ gravity' = 0
         /\ start_visible' = FALSE
         /\ reset_visible' = FALSE
         /\ sliders_visible' = FALSE
         /\ EnterEditUnchanged
    ELSE /\ editor_dragging' = FALSE
         /\ editor_start' = NoPos
         /\ editor_end' = NoPos
         /\ sliders_visible' = TRUE
         /\ state' = prev_state
         /\ start_visible' = TRUE
         /\ reset_visible' = FALSE
         /\ setup_simulation(CurLevelModel, CurWorld, level_index)
         /\ UNCHANGED <<prev_state, sim_speed, time_limit>>

toggle_editor ==
    IF state # "edit"
    THEN /\ prev_state' = state
         /\ state' = "edit"
         /\ gravity' = 0
         /\ start_visible' = FALSE
         /\ reset_visible' = FALSE
         /\ sliders_visible' = FALSE
         /\ EnterEditUnchanged
    ELSE /\ editor_dragging' = FALSE
         /\ editor_start' = NoPos
         /\ editor_end' = NoPos
         /\ sliders_visible' = TRUE
         /\ reset_simulation(CurLevelModel, CurWorld, level_index)
         /\ UNCHANGED <<prev_state, sim_speed, time_limit>>

----------------------------------------------------------------------------
(* MarbleSimulation.run, one action per event kind and one for the frame   *)
(* update.  An exception that leaves run ends the program: no action is     *)
(* enabled once raised_in is set.                                           *)

\* __init__: the sliders, and setup_simulation on the empty level, which
\* loads the level of a random file
RaceInit ==
    /\ state = "ready"
    /\ prev_state = "None"
    /\ start_visible = TRUE
    /\ reset_visible = FALSE
    /\ sliders_visible = TRUE
    /\ timer_slider = MaxTimer
    /\ gravity_slider = 350
    /\ speed_slider = 3
    /\ emit_rate_slider = 20
    /\ marble_count_slider = 10 * MaxMarbles
    /\ bounce_slider = 90
    /\ gravity = 0
    /\ sim_speed = 0
    /\ time_limit = 0
    /\ emit_rate = 20
    /\ marble_count = MaxMarbles
    /\ marble_queue = prepare_marble_queue_with_count(MaxMarbles)
    /\ marbles = <<>>
    /\ finished_rank = <<>>
    /\ space_bodies = {}
    /\ marbles_emitted = 0
    /\ emit_accumulator = 0
    /\ elapsed = 0
    /\ end_cause = "none"
    /\ rank_at_check = 0
    /\ nticks = 0
    /\ lastEvent = "init"
    /\ raised_in = "None"
    /\ edited_file = <<>>
    /\ editor_dragging = FALSE
    /\ editor_start = NoPos
    /\ editor_end = NoPos
    /\ platform_template_index = 0
    /\ \E r \in 1..Len(LevelFiles) :
          LET loaded == MarbleSimulation_load_level(
                            World(<<>>, <<>>, <<>>, <<>>), LevelFiles[r])
              W == create_conveyors(loaded.world, loaded.level.conveyors)
          IN /\ level_index = r
             /\ level_walls = loaded.level.walls
             /\ level_platforms = loaded.level.platforms
             /\ level_conveyors = loaded.level.conveyors
             /\ space_walls = W.space_walls
             /\ space_conveyors = W.space_conveyors
             /\ wall_shapes = W.wall_shapes
             /\ conveyor_shapes = W.conveyor_shapes

\* KEYDOWN K_e
KeyE ==
    /\ UNCHANGED evars
    /\ raised_in = "None"
    /\ toggle_editor
    /\ lastEvent' = "key_e"
    /\ UNCHANGED <<sliderVars, platform_template_index, edited_file>>

\* KEYDOWN K_ESCAPE while running
KeyEscape ==
    /\ UNCHANGED evars
    /\ raised_in = "None"
    /\ state = "running"
    /\ reset_simulation(CurLevelModel, CurWorld, level_index)
    /\ lastEvent' = "key_escape"
    /\ UNCHANGED <<prev_state, sliders_visible, sim_speed, time_limit,
                   sliderVars, dragVars, platform_template_index,
                   edited_file>>

\* a mouse event on a slider in the ready state
MoveSlider ==
    /\ UNCHANGED evars
    /\ raised_in = "None"
    /\ state = "ready"
    /\ sliders_visible
    /\ \/ \E v \in TimerChoices : timer_slider' = v
             /\ UNCHANGED <<gravity_slider, speed_slider, emit_rate_slider,
                            marble_count_slider, bounce_slider>>
       \/ \E v \in GravityChoices : gravity_slider' = v
             /\ UNCHANGED <<timer_slider, speed_slider, emit_rate_slider,
                            marble_count_slider, bounce_slider>>
       \/ \E v \in BounceChoices : bounce_slider' = v
             /\ UNCHANGED <<timer_slider, gravity_slider, speed_slider,
                            emit_rate_slider, marble_count_slider>>
       \/ \E v \in SpeedChoices : speed_slider' = v
             /\ UNCHANGED <<timer_slider, gravity_slider, emit_rate_slider,
                            marble_count_slider, bounce_slider>>
       \/ \E v \in RateChoices : emit_rate_slider' = v
             /\ UNCHANGED <<timer_slider, gravity_slider, speed_slider,
                            marble_count_slider, bounce_slider>>
       \/ \E v \in MarbleCountChoices : marble_count_slider' = v
             /\ UNCHANGED <<timer_slider, gravity_slider, speed_slider,
                            emit_rate_slider, bounce_slider>>
    /\ lastEvent' = "slider"
    /\ UNCHANGED <<state, prev_state, start_visible, reset_visible,
                   sliders_visible, gravity, sim_speed, time_limit, emit_rate,
                   marble_count, simVars, elapsed, end_cause, rank_at_check,
                   nticks, raised_in, levelVars, worldVars, dragVars,
                   platform_template_index, edited_file>>

\* a click on a checkbox in the ready state regenerates the queue
ToggleCheckbox ==
    /\ UNCHANGED evars
    /\ raised_in = "None"
    /\ state = "ready"
    /\ marble_queue' = prepare_marble_queue_with_count(PyInt10(marble_count_slider))
    /\ lastEvent' = "checkbox"
    /\ UNCHANGED <<state, prev_state, start_visible, reset_visible,
                   sliders_visible, gravity, sim_speed, time_limit, emit_rate,
                   marble_count, marbles, finished_rank, space_bodies,
                   marbles_emitted, emit_accumulator, elapsed, end_cause,
                   rank_at_check, nticks, raised_in, levelVars, worldVars,
                   dragVars, platform_template_index, edited_file, sliderVars>>

ClickStart ==
    /\ UNCHANGED evars
    /\ raised_in = "None"
    /\ state = "ready"
    /\ start_visible
    /\ start_simulation
    /\ lastEvent' = "start"
    /\ UNCHANGED sliderVars

\* prev_level_btn / next_level_btn in the ready state: load_level_by_index
\* of the neighbouring file, then reset_simulation
ClickLevel ==
    /\ UNCHANGED evars
    /\ raised_in = "None"
    /\ state = "ready"
    /\ \E delta \in {-1, 1} :
          LET idx == ((level_index - 1 + delta) % Len(LevelFiles)) + 1
              loaded == MarbleSimulation_load_level(CurWorld, LevelFiles[idx])
          IN IF loaded.world.raised = "None"
             THEN reset_simulation(loaded.level, loaded.world, idx)
             ELSE /\ raised_in' = loaded.world.raised
                  /\ level_index' = idx
                  /\ SetLevelModel(loaded.level)
                  /\ SetWorld(loaded.world)
                  /\ UNCHANGED <<state, start_visible, reset_visible, gravity,
                                 emit_rate, marble_count, simVars, end_cause,
                                 rank_at_check, nticks, elapsed>>
    /\ lastEvent' = "level"
    /\ UNCHANGED <<prev_state, sliders_visible, sim_speed, time_limit,
                   sliderVars, dragVars, platform_template_index,
                   edited_file>>

ClickReset ==
    /\ UNCHANGED evars
    /\ raised_in = "None"
    /\ state = "finished"
    /\ reset_visible
    /\ reset_simulation(CurLevelModel, CurWorld, level_index)
    /\ lastEvent' = "reset"
    /\ UNCHANGED <<prev_state, sliders_visible, sim_speed, time_limit,
                   sliderVars, dragVars, platform_template_index,
                   edited_file>>

\* one loop iteration in the running state: update_physics, then
\* clock.tick; d is the time the iteration takes
Frame ==
    /\ UNCHANGED evars
    /\ raised_in = "None"
    /\ state = "running"
    /\ \E below \in SUBSET (1..marble_count), d \in 1..MaxFrameTime :
          /\ update_physics(below)
          /\ elapsed' = elapsed + d
    /\ lastEvent' = "frame"
    /\ UNCHANGED <<prev_state, start_visible, sliders_visible, gravity,
                   sim_speed, time_limit, emit_rate, marble_count, sliderVars,
                   levelVars, worldVars, dragVars, platform_template_index,
                   edited_file>>

\* one loop iteration in the finished state: the results are drawn and no
\* event is acted on
FinishedFrame ==
    /\ UNCHANGED evars
    /\ raised_in = "None"
    /\ state = "finished"
    /\ lastEvent' = "finished_frame"
    /\ UNCHANGED <<state, prev_state, start_visible, reset_visible,
                   sliders_visible, gravity, sim_speed, time_limit, emit_rate,
                   marble_count, simVars, elapsed, end_cause, rank_at_check,
                   nticks, raised_in, levelVars, worldVars, dragVars,
                   platform_template_index, edited_file, sliderVars>>

----------------------------------------------------------------------------
(* handle_editor_event: the events of the in-game editor (state "edit");    *)
(* the template keys [ and ] are not pressed                               *)

\* what no event of the in-game editor touches
EditorEventUnchanged ==
    UNCHANGED <<state, prev_state, start_visible, reset_visible,
                sliders_visible, sliderVars, gravity, sim_speed, time_limit,
                emit_rate, marble_count, simVars, elapsed, end_cause,
                rank_at_check, nticks, level_index>>

\* the level model L and the world W an event leaves
SetLevelAndWorld(L, W) ==
    /\ SetLevelModel(L)
    /\ SetWorld(W)
    /\ raised_in' = W.raised

\* delete_platform_at(pos): the platforms left
delete_platform_at(ps, pos) ==
    LET best_idx == BestWithin12(PlatformDistances(ps, pos))
    IN IF best_idx = 0 THEN ps ELSE RemoveAt(ps, best_idx)

\* delete_wall_at(pos): the walls left
delete_wall_at(ws, pos) ==
    LET best_idx == BestWithin12(WallDistances(ws, pos))
    IN IF best_idx = 0 THEN ws ELSE RemoveAt(ws, best_idx)

\* add_platform_at(pos)
add_platform_at(ps, pos) ==
    Append(ps, [pos |-> pos,
                length |-> platform_templates[platform_template_index + 1].length,
                angular_velocity |->
                    platform_templates[platform_template_index + 1].angular_velocity])

\* KEYDOWN K_BACKSPACE
EdKeyBackspace ==
    /\ UNCHANGED evars
    /\ raised_in = "None"
    /\ state = "edit"
    /\ IF level_walls # <<>>
       THEN LET lw == SubSeq(level_walls, 1, Len(level_walls) - 1)
            IN SetLevelAndWorld([CurLevelModel EXCEPT !.walls = lw],
                                rebuild_walls(CurWorld, lw))
       ELSE UNCHANGED <<levelVars, worldVars, raised_in>>
    /\ lastEvent' = "edit_key"
    /\ EditorEventUnchanged
    /\ UNCHANGED <<dragVars, platform_template_index, edited_file>>

\* KEYDOWN K_c
EdKeyC ==
    /\ UNCHANGED evars
    /\ raised_in = "None"
    /\ state = "edit"
    /\ SetLevelAndWorld([CurLevelModel EXCEPT !.walls = <<>>, !.platforms = <<>>],
                        rebuild_walls(CurWorld, <<>>))
    /\ lastEvent' = "edit_key"
    /\ EditorEventUnchanged
    /\ UNCHANGED <<dragVars, platform_template_index, edited_file>>

\* KEYDOWN K_r
EdKeyR ==
    /\ UNCHANGED evars
    /\ raised_in = "None"
    /\ state = "edit"
    /\ LET loaded == MarbleSimulation_load_level(CurWorld,
                                                 LevelFiles[DefaultLevelIndex])
       IN SetLevelAndWorld(loaded.level, loaded.world)
    /\ lastEvent' = "edit_key"
    /\ EditorEventUnchanged
    /\ UNCHANGED <<dragVars, platform_template_index, edited_file>>

\* KEYDOWN K_s
EdKeyS ==
    /\ UNCHANGED evars
    /\ raised_in = "None"
    /\ state = "edit"
    /\ edited_file' = <<save_level(level_walls, level_platforms, level_conveyors)>>
    /\ lastEvent' = "edit_key"
    /\ EditorEventUnchanged
    /\ UNCHANGED <<levelVars, worldVars, raised_in, dragVars,
                   platform_template_index>>

\* KEYDOWN K_l
EdKeyL ==
    /\ UNCHANGED evars
    /\ raised_in = "None"
    /\ state = "edit"
    /\ IF edited_file # <<>>
       THEN LET loaded == MarbleSimulation_load_level(CurWorld, edited_file[1])
            IN SetLevelAndWorld(loaded.level, loaded.world)
       ELSE UNCHANGED <<levelVars, worldVars, raised_in>>
    /\ lastEvent' = "edit_key"
    /\ EditorEventUnchanged
    /\ UNCHANGED <<dragVars, platform_template_index, edited_file>>

\* MOUSEBUTTONDOWN, button 1
EdLeftDown ==
    /\ UNCHANGED evars
    /\ raised_in = "None"
    /\ state = "edit"
    /\ \E world_pos \in PressPosChoices :
          IF world_pos = NoPos
          THEN UNCHANGED dragVars
          ELSE /\ editor_dragging' = TRUE
               /\ editor_start' = world_pos
               /\ editor_end' = world_pos
    /\ lastEvent' = "edit_mouse"
    /\ EditorEventUnchanged
    /\ UNCHANGED <<levelVars, worldVars, raised_in, platform_template_index,
                   edited_file>>

\* MOUSEBUTTONDOWN, button 3
EdRightDown ==
    /\ UNCHANGED evars
    /\ raised_in = "None"
    /\ state = "edit"
    /\ \E world_pos \in MousePosChoices :
          IF world_pos = NoPos
          THEN UNCHANGED <<levelVars, worldVars, raised_in>>
          ELSE LET lp == delete_platform_at(level_platforms, world_pos)
                   lw == delete_wall_at(level_walls, world_pos)
               IN IF lp # level_platforms
                  THEN /\ level_platforms' = lp
                       /\ UNCHANGED <<level_walls, level_conveyors, worldVars,
                                      raised_in>>
                  ELSE IF lw # level_walls
                       THEN SetLevelAndWorld(
                                [CurLevelModel EXCEPT !.walls = lw],
                                rebuild_walls(CurWorld, lw))
                       ELSE UNCHANGED <<level_walls, level_platforms,
                                        level_conveyors, worldVars, raised_in>>
    /\ lastEvent' = "edit_mouse"
    /\ EditorEventUnchanged
    /\ UNCHANGED <<dragVars, platform_template_index, edited_file>>

\* MOUSEMOTION
EdMouseMotion ==
    /\ UNCHANGED evars
    /\ raised_in = "None"
    /\ state = "edit"
    /\ \E world_pos \in MousePosChoices :
          IF editor_dragging /\ world_pos # NoPos
          THEN editor_end' = world_pos
          ELSE UNCHANGED editor_end
    /\ lastEvent' = "edit_mouse"
    /\ EditorEventUnchanged
    /\ UNCHANGED <<levelVars, worldVars, raised_in, editor_dragging,
                   editor_start, platform_template_index, edited_file>>

\* MOUSEBUTTONUP, button 1
EdLeftUp ==
    /\ UNCHANGED evars
    /\ raised_in = "None"
    /\ state = "edit"
    /\ IF editor_dragging /\ editor_start # NoPos /\ editor_end # NoPos
       THEN IF FartherThan4(editor_start, editor_end)
            THEN /\ Len(level_walls) < MaxLevelWalls
                 /\ LET lw == Append(level_walls, <<editor_start, editor_end>>)
                    IN SetLevelAndWorld([CurLevelModel EXCEPT !.walls = lw],
                                        rebuild_walls(CurWorld, lw))
            ELSE /\ Len(level_platforms) < MaxLevelPlatforms
                 /\ level_platforms' = add_platform_at(level_platforms, editor_end)
                 /\ UNCHANGED <<level_walls, level_conveyors, worldVars,
                                raised_in>>
       ELSE UNCHANGED <<level_walls, level_platforms, level_conveyors,
                        worldVars, raised_in>>
    /\ editor_dragging' = FALSE
    /\ editor_start' = NoPos
    /\ editor_end' = NoPos
    /\ lastEvent' = "edit_mouse"
    /\ EditorEventUnchanged
    /\ UNCHANGED <<platform_template_index, edited_file>>

RaceNext ==
    \/ KeyE
    \/ KeyEscape
    \/ MoveSlider
    \/ ToggleCheckbox
    \/ ClickStart
    \/ ClickLevel
    \/ ClickReset
    \/ Frame
    \/ FinishedFrame

\* run with the events of the in-game editor, for a user who edits and
\* switches levels and starts no race
WorldNext ==
    \/ KeyE
    \/ ClickLevel
    \/ EdKeyBackspace
    \/ EdKeyC
    \/ EdKeyR
    \/ EdKeyS
    \/ EdKeyL
    \/ EdLeftDown
    \/ EdRightDown
    \/ EdMouseMotion
    \/ EdLeftUp

----------------------------------------------------------------------------
(* level_editor.py: LevelEditor.  Canvas coordinates are whole pixels.      *)

NoIndex == -1

NoHandle == <<>>

EditModes == {"select", "wall", "platform", "emitter", "delete"}

\* the levels of the level buttons, as level_io.load_level returns them;
\* the first one is DEFAULT_LEVEL_PATH
EditorLevelFiles ==
    << [walls |-> << <<(<<20, 20>>), (<<60, 20>>)>> >>,
        platforms |-> << [pos |-> <<40, 30>>, length |-> 20,
                          angular_velocity |-> 2] >>,
        emitter |-> [pos |-> <<40, 50>>, angle |-> 90, width |-> 60,
                     rate |-> 20, count |-> 100, speed |-> 50]],
       [walls |-> <<>>,
        platforms |-> <<>>,
        emitter |-> get_default_emitter] >>

\* screen_to_canvas(event.pos) for the mouse positions used; NoPos is a
\* position outside the viewport
CanvasPosChoices == {<<24, 20>>, <<40, 30>>, <<40, 32>>, <<40, 60>>, <<100, 100>>}

\* the positions of the clicks that place a wall start, a platform or the
\* emitter
PlacePosChoices == {<<24, 20>>, NoPos}

\* the positions the mouse is moved to
MotionPosChoices == {<<40, 60>>, NoPos}

\* GridSystem.snap_point on one coordinate: round(x / 20) * 20, where
\* round takes a half to the even neighbour
SnapCoord(x) ==
    LET q == x \div 20
        r == x % 20
    IN IF r < 10 THEN 20 * q
       ELSE IF r > 10 THEN 20 * (q + 1)
       ELSE IF q % 2 = 0 THEN 20 * q ELSE 20 * (q + 1)

snap_point(enabled, point) ==
    IF ~enabled THEN point
    ELSE <<SnapCoord(point[1]), SnapCoord(point[2])>>

\* LevelEditor.distance_to_segment(p, a, b), squared, as a fraction
LevelEditor_distance_to_segment(p, a, b) ==
    LET abx == b[1] - a[1]
        aby == b[2] - a[2]
        ab_len_sq == abx * abx + aby * aby
        tnum == (p[1] - a[1]) * abx + (p[2] - a[2]) * aby
    IN IF ab_len_sq = 0 THEN <<SqDist(p, a), 1>>
       ELSE IF tnum <= 0 THEN <<SqDist(p, a), 1>>
       ELSE IF tnum >= ab_len_sq THEN <<SqDist(p, b), 1>>
       ELSE LET num == SqDist(p, a) * ab_len_sq - tnum * tnum
            IN IF num % ab_len_sq = 0
               THEN <<num \div ab_len_sq, 1>>
               ELSE <<num, ab_len_sq>>

\* distance_to_point(p1, p2) <= threshold
PointWithin(p1, p2, threshold) == SqDist(p1, p2) <= threshold * threshold

\* variant of the search loop in which an equally near later candidate
\* replaces the best one
BestWithin_lastOnTies(ds, threshold) ==
    LET start == <<(threshold + 1) * (threshold + 1), 1>>
        cands == {i \in 1..Len(ds) : FracLT(ds[i], start)}
        best == CHOOSE i \in cands :
                    /\ \A j \in cands : FracLE(ds[i], ds[j])
                    /\ \A j \in cands : j > i => FracLT(ds[i], ds[j])
    IN IF cands = {} THEN NoIndex
       ELSE IF FracLE(ds[best], <<threshold * threshold, 1>>)
            THEN best - 1
            ELSE NoIndex

\* variant of the search loop that returns the best one only if it is
\* strictly closer than the threshold
BestWithin_strict(ds, threshold) ==
    LET start == <<(threshold + 1) * (threshold + 1), 1>>
        cands == {i \in 1..Len(ds) : FracLT(ds[i], start)}
        best == CHOOSE i \in cands :
                    /\ \A j \in cands : FracLE(ds[i], ds[j])
                    /\ \A j \in cands : j < i => FracLT(ds[i], ds[j])
    IN IF cands = {} THEN NoIndex
       ELSE IF FracLT(ds[best], <<threshold * threshold, 1>>)
            THEN best - 1
            ELSE NoIndex

\* the search loop of find_wall_at / find_platform_at over the candidate
\* distances ds: best_dist starts at threshold + 1 and a candidate replaces
\* the best one when it is strictly closer; the zero-based index of the
\* best one is returned if best_dist <= threshold
BestWithin(ds, threshold) ==
    LET start == <<(threshold + 1) * (threshold + 1), 1>>
        cands == {i \in 1..Len(ds) : FracLT(ds[i], start)}
        best == CHOOSE i \in cands :
                    /\ \A j \in cands : FracLE(ds[i], ds[j])
                    /\ \A j \in cands : j < i => FracLT(ds[i], ds[j])
    IN IF cands = {} THEN NoIndex
       ELSE IF FracLE(ds[best], <<threshold * threshold, 1>>)
            THEN best - 1
            ELSE NoIndex

find_wall_at(ws, pos) ==
    BestWithin([i \in 1..Len(ws) |->
                   LevelEditor_distance_to_segment(pos, ws[i][1], ws[i][2])],
               10)

\* the first wall with an endpoint within 8, its start tested before its end
find_wall_handle_at(ws, pos) ==
    LET near(i) == PointWithin(pos, ws[i][1], 8) \/ PointWithin(pos, ws[i][2], 8)
    IN IF \E i \in 1..Len(ws) : near(i)
       THEN LET idx == CHOOSE i \in 1..Len(ws) :
                          near(i) /\ \A j \in 1..(i - 1) : ~near(j)
            IN <<idx - 1,
                 IF PointWithin(pos, ws[idx][1], 8) THEN "start" ELSE "end">>
       ELSE NoHandle

find_platform_at(ps, o, pos) ==
    BestWithin([i \in 1..Len(ps) |->
                   LevelEditor_distance_to_segment(
                       pos,
                       <<o[ps[i]].pos[1] - o[ps[i]].length, o[ps[i]].pos[2]>>,
                       <<o[ps[i]].pos[1] + o[ps[i]].length, o[ps[i]].pos[2]>>)],
               15)

is_near_emitter(e, pos) == PointWithin(pos, e.pos, 30)

----------------------------------------------------------------------------
(* Editor state *)

selVars == <<selected_wall, selected_platform, selected_emitter, selected_handle>>

drawVars == <<drawing, draw_start, draw_end>>

lvlVars == <<walls, platforms, objs, emitter>>

stackVars == <<undo_stack, redo_stack, ret, raised>>

obsVars == <<lastOps, afterExec, runBase, runExec, runUndo>>

\* the editor fields right after the first assignments of __init__
EditorUIFields ==
    /\ mode = "select"
    /\ selected_wall = NoIndex
    /\ selected_platform = NoIndex
    /\ selected_emitter = FALSE
    /\ selected_handle = NoHandle
    /\ dragging_emitter = FALSE
    /\ drawing = FALSE
    /\ draw_start = NoPos
    /\ draw_end = NoPos
    /\ grid_enabled = TRUE
    /\ editorEvent = "init"
    /\ click_pos = NoPos

\* no function is called on its own
EditorUIInit ==
    /\ EditorUIFields
    /\ call = <<>>
    /\ result = <<>>

set_mode(m) ==
    /\ mode' = m
    /\ selected_wall' = NoIndex
    /\ selected_platform' = NoIndex
    /\ selected_emitter' = FALSE
    /\ selected_handle' = NoHandle
    /\ dragging_emitter' = FALSE
    /\ drawing' = FALSE
    /\ draw_start' = NoPos
    /\ draw_end' = NoPos

\* LevelEditor.load_level(path): the platform dicts of the file are new
\* objects; the ones of the level left behind are referenced by nothing
\* once the history is cleared
LevelEditor_load_level(level) ==
    /\ walls' = level.walls
    /\ objs' = level.platforms
    /\ platforms' = [i \in 1..Len(level.platforms) |-> i]
    /\ emitter' = level.emitter
    /\ undo_stack' = <<>>
    /\ redo_stack' = <<>>
    /\ selected_wall' = NoIndex
    /\ selected_platform' = NoIndex
    /\ selected_emitter' = FALSE
    /\ UNCHANGED <<mode, selected_handle, dragging_emitter, drawVars, ret,
                   raised>>

\* variant of new_level without history.clear()
new_level_keepHistory ==
    /\ walls' = <<>>
    /\ platforms' = <<>>
    /\ objs' = <<>>
    /\ emitter' = get_default_emitter
    /\ selected_wall' = NoIndex
    /\ selected_platform' = NoIndex
    /\ UNCHANGED <<mode, selected_emitter, selected_handle, dragging_emitter,
                   drawVars, ret, raised, undo_stack, redo_stack>>

new_level ==
    /\ walls' = <<>>
    /\ platforms' = <<>>
    /\ objs' = <<>>
    /\ emitter' = get_default_emitter
    /\ undo_stack' = <<>>
    /\ redo_stack' = <<>>
    /\ selected_wall' = NoIndex
    /\ selected_platform' = NoIndex
    /\ UNCHANGED <<mode, selected_emitter, selected_handle, dragging_emitter,
                   drawVars, ret, raised>>

CountExecute == nexec' = nexec + 1

\* variant of the select branch that looks for a platform before the walls
handle_canvas_click_select_platformFirst(pos) ==
    LET handle == find_wall_handle_at(walls, pos)
        wall_idx == find_wall_at(walls, pos)
        plat_idx == find_platform_at(platforms, objs, pos)
    IN /\ IF plat_idx # NoIndex
          THEN /\ selected_platform' = plat_idx
               /\ selected_wall' = NoIndex
               /\ selected_emitter' = FALSE
               /\ selected_handle' = NoHandle
               /\ UNCHANGED dragging_emitter
          ELSE IF handle # NoHandle
          THEN /\ selected_wall' = handle[1]
               /\ selected_handle' = handle
               /\ selected_platform' = NoIndex
               /\ selected_emitter' = FALSE
               /\ UNCHANGED dragging_emitter
          ELSE IF wall_idx # NoIndex
          THEN /\ selected_wall' = wall_idx
               /\ selected_platform' = NoIndex
               /\ selected_emitter' = FALSE
               /\ selected_handle' = NoHandle
               /\ UNCHANGED dragging_emitter
          ELSE IF is_near_emitter(emitter, pos)
          THEN /\ selected_emitter' = TRUE
               /\ selected_wall' = NoIndex
               /\ selected_platform' = NoIndex
               /\ selected_handle' = NoHandle
               /\ dragging_emitter' = TRUE
          ELSE /\ selected_wall' = NoIndex
               /\ selected_platform' = NoIndex
               /\ selected_emitter' = FALSE
               /\ selected_handle' = NoHandle
               /\ UNCHANGED dragging_emitter
       /\ UNCHANGED <<drawVars, lvlVars, stackVars, nexec>>

\* variant of the select branch whose platform and emitter branches keep
\* selected_wall
handle_canvas_click_select_keepWall(pos) ==
    LET handle == find_wall_handle_at(walls, pos)
        wall_idx == find_wall_at(walls, pos)
        plat_idx == find_platform_at(platforms, objs, pos)
    IN /\ IF handle # NoHandle
          THEN /\ selected_wall' = handle[1]
               /\ selected_handle' = handle
               /\ selected_platform' = NoIndex
               /\ selected_emitter' = FALSE
               /\ UNCHANGED dragging_emitter
          ELSE IF wall_idx # NoIndex
          THEN /\ selected_wall' = wall_idx
               /\ selected_platform' = NoIndex
               /\ selected_emitter' = FALSE
               /\ selected_handle' = NoHandle
               /\ UNCHANGED dragging_emitter
          ELSE IF plat_idx # NoIndex
          THEN /\ selected_platform' = plat_idx
               /\ selected_wall' = selected_wall
               /\ selected_emitter' = FALSE
               /\ selected_handle' = NoHandle
               /\ UNCHANGED dragging_emitter
          ELSE IF is_near_emitter(emitter, pos)
          THEN /\ selected_emitter' = TRUE
               /\ selected_wall' = selected_wall
               /\ selected_platform' = NoIndex
               /\ selected_handle' = NoHandle
               /\ dragging_emitter' = TRUE
          ELSE /\ selected_wall' = NoIndex
               /\ selected_platform' = NoIndex
               /\ selected_emitter' = FALSE
               /\ selected_handle' = NoHandle
               /\ UNCHANGED dragging_emitter
       /\ UNCHANGED <<drawVars, lvlVars, stackVars, nexec>>

\* handle_canvas_click, the branch of select mode
handle_canvas_click_select(pos) ==
    LET handle == find_wall_handle_at(walls, pos)
        wall_idx == find_wall_at(walls, pos)
        plat_idx == find_platform_at(platforms, objs, pos)
    IN /\ IF handle # NoHandle
          THEN /\ selected_wall' = handle[1]
               /\ selected_handle' = handle
               /\ selected_platform' = NoIndex
               /\ selected_emitter' = FALSE
               /\ UNCHANGED dragging_emitter
          ELSE IF wall_idx # NoIndex
          THEN /\ selected_wall' = wall_idx
               /\ selected_platform' = NoIndex
               /\ selected_emitter' = FALSE
               /\ selected_handle' = NoHandle
               /\ UNCHANGED dragging_emitter
          ELSE IF plat_idx # NoIndex
          THEN /\ selected_platform' = plat_idx
               /\ selected_wall' = NoIndex
               /\ selected_emitter' = FALSE
               /\ selected_handle' = NoHandle
               /\ UNCHANGED dragging_emitter
          ELSE IF is_near_emitter(emitter, pos)
          THEN /\ selected_emitter' = TRUE
               /\ selected_wall' = NoIndex
               /\ selected_platform' = NoIndex
               /\ selected_handle' = NoHandle
               /\ dragging_emitter' = TRUE
          ELSE /\ selected_wall' = NoIndex
               /\ selected_platform' = NoIndex
               /\ selected_emitter' = FALSE
               /\ selected_handle' = NoHandle
               /\ UNCHANGED dragging_emitter
       /\ UNCHANGED <<drawVars, lvlVars, stackVars, nexec>>

\* handle_canvas_click, the branch of wall mode
handle_canvas_click_wall(snapped_pos) ==
    /\ drawing' = TRUE
    /\ draw_start' = snapped_pos
    /\ draw_end' = snapped_pos
    /\ UNCHANGED <<selVars, dragging_emitter, lvlVars, stackVars, nexec>>

\* handle_canvas_click, the branch of platform mode: the new dict is
\* created, then the command that holds it
handle_canvas_click_platform(snapped_pos) ==
    LET platform == [pos |-> snapped_pos, length |-> 50, angular_velocity |-> 2]
    IN /\ CommandHistory_execute(AddPlatformCommand(Len(objs) + 1),
                                 [CurLvl EXCEPT !.objs = Append(@, platform)])
       /\ CountExecute
       /\ selected_platform' = Len(platforms') - 1
       /\ selected_wall' = NoIndex
       /\ selected_emitter' = FALSE
       /\ UNCHANGED <<selected_handle, dragging_emitter, drawVars>>

\* handle_canvas_click, the branch of emitter mode
handle_canvas_click_emitter(snapped_pos) ==
    /\ CommandHistory_execute(
           ModifyEmitterCommand(emitter, [emitter EXCEPT !.pos = snapped_pos]),
           CurLvl)
    /\ CountExecute
    /\ selected_emitter' = TRUE
    /\ selected_wall' = NoIndex
    /\ selected_platform' = NoIndex
    /\ UNCHANGED <<selected_handle, dragging_emitter, drawVars>>

\* variant of the delete branch that looks for a wall before the platforms
handle_canvas_click_delete_wallFirst(pos) ==
    LET plat_idx == find_platform_at(platforms, objs, pos)
        wall_idx == find_wall_at(walls, pos)
    IN IF wall_idx # NoIndex
       THEN /\ CommandHistory_execute(
                   DeleteWallCommand(walls[wall_idx + 1], wall_idx), CurLvl)
            /\ CountExecute
            /\ selected_wall' = IF selected_wall = wall_idx
                                THEN NoIndex ELSE selected_wall
            /\ UNCHANGED <<selected_platform, selected_emitter,
                           selected_handle, dragging_emitter, drawVars>>
       ELSE IF plat_idx # NoIndex
       THEN /\ CommandHistory_execute(
                   DeletePlatformCommand(platforms[plat_idx + 1], plat_idx),
                   CurLvl)
            /\ CountExecute
            /\ selected_platform' = IF selected_platform = plat_idx
                                    THEN NoIndex ELSE selected_platform
            /\ UNCHANGED <<selected_wall, selected_emitter, selected_handle,
                           dragging_emitter, drawVars>>
       ELSE UNCHANGED <<selVars, dragging_emitter, drawVars, lvlVars,
                        stackVars, nexec>>

\* handle_canvas_click, the branch of delete mode
handle_canvas_click_delete(pos) ==
    LET plat_idx == find_platform_at(platforms, objs, pos)
        wall_idx == find_wall_at(walls, pos)
    IN IF plat_idx # NoIndex
       THEN /\ CommandHistory_execute(
                   DeletePlatformCommand(platforms[plat_idx + 1], plat_idx),
                   CurLvl)
            /\ CountExecute
            /\ selected_platform' = IF selected_platform = plat_idx
                                    THEN NoIndex ELSE selected_platform
            /\ UNCHANGED <<selected_wall, selected_emitter, selected_handle,
                           dragging_emitter, drawVars>>
       ELSE IF wall_idx # NoIndex
       THEN /\ CommandHistory_execute(
                   DeleteWallCommand(walls[wall_idx + 1], wall_idx), CurLvl)
            /\ CountExecute
            /\ selected_wall' = IF selected_wall = wall_idx
                                THEN NoIndex ELSE selected_wall
            /\ UNCHANGED <<selected_platform, selected_emitter,
                           selected_handle, dragging_emitter, drawVars>>
       ELSE UNCHANGED <<selVars, dragging_emitter, drawVars, lvlVars,
                        stackVars, nexec>>

handle_canvas_click(pos) ==
    LET snapped_pos == snap_point(grid_enabled, pos)
    IN CASE mode = "select" -> handle_canvas_click_select(pos)
         [] mode = "wall" -> handle_canvas_click_wall(snapped_pos)
         [] mode = "platform" -> handle_canvas_click_platform(snapped_pos)
         [] mode = "emitter" -> handle_canvas_click_emitter(snapped_pos)
         [] mode = "delete" -> handle_canvas_click_delete(pos)

\* drag_wall_handle: self.walls[idx] raises IndexError past the end
drag_wall_handle(pos) ==
    LET idx == selected_handle[1]
        which == selected_handle[2]
        snapped == snap_point(grid_enabled, pos)
    IN IF idx >= Len(walls)
       THEN /\ raised' = TRUE
            /\ UNCHANGED <<lvlVars, undo_stack, redo_stack, ret>>
       ELSE /\ walls' = [walls EXCEPT ![idx + 1] =
                            IF which = "start" THEN <<snapped, @[2]>>
                            ELSE <<@[1], snapped>>]
            /\ UNCHANGED <<platforms, objs, emitter, stackVars>>

\* variant of drag_emitter that moves the emitter through a command
drag_emitter_viaCommand(pos) ==
    CommandHistory_execute(
        ModifyEmitterCommand(emitter,
                             [emitter EXCEPT !.pos = snap_point(grid_enabled, pos)]),
        CurLvl)

drag_emitter(pos) ==
    /\ emitter' = [emitter EXCEPT !.pos = snap_point(grid_enabled, pos)]
    /\ UNCHANGED <<walls, platforms, objs, stackVars>>

\* distance_to_point(draw_start, draw_end) > 5
LongerThan5(a, b) == SqDist(a, b) > 5 * 5

\* variant of finish_drawing without the test of the length
finish_drawing_noThreshold ==
    IF ~drawing \/ draw_start = NoPos \/ draw_end = NoPos
    THEN /\ drawing' = FALSE
         /\ UNCHANGED <<draw_start, draw_end, selVars, lvlVars, stackVars, nexec>>
    ELSE /\ CommandHistory_execute(
                AddWallCommand(<<draw_start, draw_end>>), CurLvl)
         /\ CountExecute
         /\ selected_wall' = Len(walls') - 1
         /\ selected_platform' = NoIndex
         /\ UNCHANGED <<selected_emitter, selected_handle>>
         /\ drawing' = FALSE
         /\ draw_start' = NoPos
         /\ draw_end' = NoPos

finish_drawing ==
    IF ~drawing \/ draw_start = NoPos \/ draw_end = NoPos
    THEN /\ drawing' = FALSE
         /\ UNCHANGED <<draw_start, draw_end, selVars, lvlVars, stackVars, nexec>>
    ELSE /\ IF LongerThan5(draw_start, draw_end)
            THEN /\ CommandHistory_execute(
                        AddWallCommand(<<draw_start, draw_end>>), CurLvl)
                 /\ CountExecute
                 /\ selected_wall' = Len(walls') - 1
                 /\ selected_platform' = NoIndex
                 /\ UNCHANGED <<selected_emitter, selected_handle>>
            ELSE UNCHANGED <<selVars, lvlVars, stackVars, nexec>>
         /\ drawing' = FALSE
         /\ draw_start' = NoPos
         /\ draw_end' = NoPos

\* delete_selected: indexing past the end raises IndexError
delete_selected ==
    IF selected_platform # NoIndex
    THEN IF selected_platform >= Len(platforms)
         THEN /\ raised' = TRUE
              /\ UNCHANGED <<selVars, lvlVars, undo_stack, redo_stack, ret,
                             nexec>>
         ELSE /\ CommandHistory_execute(
                     DeletePlatformCommand(platforms[selected_platform + 1],
                                           selected_platform), CurLvl)
              /\ CountExecute
              /\ selected_platform' = NoIndex
              /\ UNCHANGED <<selected_wall, selected_emitter, selected_handle>>
    ELSE IF selected_wall # NoIndex
    THEN IF selected_wall >= Len(walls)
         THEN /\ raised' = TRUE
              /\ UNCHANGED <<selVars, lvlVars, undo_stack, redo_stack, ret,
                             nexec>>
         ELSE /\ CommandHistory_execute(
                     DeleteWallCommand(walls[selected_wall + 1], selected_wall),
                     CurLvl)
              /\ CountExecute
              /\ selected_wall' = NoIndex
              /\ UNCHANGED <<selected_platform, selected_emitter,
                             selected_handle>>
    ELSE UNCHANGED <<selVars, lvlVars, stackVars, nexec>>

----------------------------------------------------------------------------
(* LevelEditor.handle_event, one action per kind of event.  An exception   *)
(* that leaves handle_event ends the program.                               *)

\* variant without the early return of the preview
Editing_alsoInPreview == ~raised

Editing == ~raised /\ mode # "preview"

\* Ctrl+Z
EvKeyUndo ==
    /\ Editing
    /\ CommandHistory_undo(CurLvl)
    /\ editorEvent' = "key"
    /\ UNCHANGED <<mode, selVars, dragging_emitter, drawVars, grid_enabled, call, result,
                   click_pos, nexec, obsVars, rvars>>

\* Ctrl+Y
EvKeyRedo ==
    /\ Editing
    /\ CommandHistory_redo(CurLvl)
    /\ editorEvent' = "key"
    /\ UNCHANGED <<mode, selVars, dragging_emitter, drawVars, grid_enabled, call, result,
                   click_pos, nexec, obsVars, rvars>>

\* the keys v, w, p, e, x and the tool buttons
EvSetMode ==
    /\ Editing
    /\ \E m \in EditModes : set_mode(m)
    /\ editorEvent' = "key"
    /\ UNCHANGED <<lvlVars, stackVars, grid_enabled, call, result, click_pos, nexec,
                   obsVars, rvars>>

\* Space and the preview button
EvStartPreview ==
    /\ Editing
    /\ mode' = "preview"
    /\ editorEvent' = "key"
    /\ UNCHANGED <<selVars, dragging_emitter, drawVars, lvlVars, stackVars,
                   grid_enabled, call, result, click_pos, nexec, obsVars, rvars>>

\* Space or Escape during the preview
EvStopPreview ==
    /\ ~raised
    /\ mode = "preview"
    /\ set_mode("select")
    /\ editorEvent' = "stop_preview"
    /\ UNCHANGED <<lvlVars, stackVars, grid_enabled, call, result, click_pos, nexec,
                   obsVars, rvars>>

\* any other event during the preview: handle_event returns True at once
EvInPreview ==
    /\ ~raised
    /\ mode = "preview"
    /\ editorEvent' = "in_preview"
    /\ UNCHANGED <<mode, selVars, dragging_emitter, drawVars, lvlVars, stackVars,
                   grid_enabled, call, result, click_pos, nexec, obsVars, rvars>>

\* Delete
EvKeyDelete ==
    /\ Editing
    /\ (\/ selected_platform \in 0..(Len(platforms) - 1)
        \/ selected_platform = NoIndex /\ selected_wall \in 0..(Len(walls) - 1))
          => nexec < MaxEdits
    /\ delete_selected
    /\ editorEvent' = "key"
    /\ UNCHANGED <<mode, dragging_emitter, drawVars, grid_enabled, call, result, click_pos,
                   obsVars, rvars>>

\* the New button
EvClickNew ==
    /\ Editing
    /\ new_level
    /\ editorEvent' = "new"
    /\ UNCHANGED <<grid_enabled, call, result, click_pos, nexec, obsVars, rvars>>

\* a level file button
EvClickLevelFile ==
    /\ Editing
    /\ \E i \in 1..Len(EditorLevelFiles) :
          LevelEditor_load_level(EditorLevelFiles[i])
    /\ editorEvent' = "mouse"
    /\ UNCHANGED <<grid_enabled, call, result, click_pos, nexec, obsVars, rvars>>

\* MOUSEBUTTONDOWN, button 1, outside the buttons
EvMouseDown ==
    /\ Editing
    /\ mode \in {"platform", "emitter", "delete"} => nexec < MaxEdits
    /\ \E pos \in IF mode \in {"select", "delete"}
                   THEN CanvasPosChoices \cup {NoPos}
                   ELSE PlacePosChoices :
          IF pos # NoPos
          THEN /\ handle_canvas_click(pos)
               /\ click_pos' = pos
               /\ editorEvent' = "click"
          ELSE /\ editorEvent' = "mouse"
               /\ UNCHANGED <<selVars, dragging_emitter, drawVars, lvlVars,
                              stackVars, nexec, click_pos>>
    /\ UNCHANGED <<mode, grid_enabled, call, result, obsVars, rvars>>

\* MOUSEBUTTONUP, button 1
EvMouseUp ==
    /\ Editing
    /\ drawing => nexec < MaxEdits
    /\ IF drawing
       THEN finish_drawing
       ELSE UNCHANGED <<drawVars, selVars, lvlVars, stackVars, nexec>>
    /\ dragging_emitter' = FALSE
    /\ editorEvent' = "mouse_up"
    /\ UNCHANGED <<mode, grid_enabled, call, result, click_pos, obsVars, rvars>>

\* MOUSEMOTION at a canvas position or outside the viewport, with the left
\* button held or not
EvMouseMotion ==
    /\ Editing
    /\ \E pos \in MotionPosChoices, pressed \in BOOLEAN :
          IF drawing /\ pos # NoPos
          THEN /\ draw_end' = snap_point(grid_enabled, pos)
               /\ UNCHANGED <<drawing, draw_start, lvlVars, stackVars>>
          ELSE IF selected_handle # NoHandle /\ pos # NoPos /\ pressed
          THEN /\ drag_wall_handle(pos)
               /\ UNCHANGED drawVars
          ELSE IF dragging_emitter /\ pos # NoPos /\ pressed
          THEN /\ drag_emitter(pos)
               /\ UNCHANGED drawVars
          ELSE UNCHANGED <<drawVars, lvlVars, stackVars>>
    /\ editorEvent' = "motion"
    /\ UNCHANGED <<mode, selVars, dragging_emitter, grid_enabled, call, result, click_pos,
                   nexec, obsVars, rvars>>

EditorNext ==
    \/ EvKeyUndo
    \/ EvKeyRedo
    \/ EvSetMode
    \/ EvStartPreview
    \/ EvStopPreview
    \/ EvInPreview
    \/ EvKeyDelete
    \/ EvClickNew
    \/ EvClickLevelFile
    \/ EvMouseDown
    \/ EvMouseUp
    \/ EvMouseMotion

\* __init__: the fields, then load_level(DEFAULT_LEVEL_PATH)
EditorInit ==
    /\ EditorUIInit
    /\ walls = EditorLevelFiles[1].walls
    /\ objs = EditorLevelFiles[1].platforms
    /\ platforms = [i \in 1..Len(EditorLevelFiles[1].platforms) |-> i]
    /\ emitter = EditorLevelFiles[1].emitter
    /\ undo_stack = <<>>
    /\ redo_stack = <<>>
    /\ raised = FALSE
    /\ ret = "None"
    /\ nexec = 0
    /\ lastOps = <<>>
    /\ afterExec = LevelValue(Lvl(walls, platforms, objs, emitter))
    /\ runBase = LevelValue(Lvl(walls, platforms, objs, emitter))
    /\ runExec = 0
    /\ runUndo = 0

\* the editor of level_editor.py is a separate program: idle here
EditorIdleFields ==
    /\ walls = <<>>
    /\ platforms = <<>>
    /\ objs = <<>>
    /\ emitter = get_default_emitter
    /\ undo_stack = <<>>
    /\ redo_stack = <<>>
    /\ raised = FALSE
    /\ ret = "None"
    /\ nexec = 0
    /\ lastOps = <<>>
    /\ afterExec = LevelValue(Lvl(<<>>, <<>>, <<>>, get_default_emitter))
    /\ runBase = LevelValue(Lvl(<<>>, <<>>, <<>>, get_default_emitter))
    /\ runExec = 0
    /\ runUndo = 0
    /\ EditorUIFields

EditorIdle ==
    /\ EditorIdleFields
    /\ call = <<>>
    /\ result = <<>>

HistSpecInit ==
    HistInit /\ EditorUIInit /\ RaceInit /\ level_index = DefaultLevelIndex

HistSpec == HistSpecInit /\ [][HistNext]_vars

RaceSpecInit == RaceInit /\ EditorIdle

RaceSpec == RaceSpecInit /\ [][RaceNext]_vars

WorldSpecInit == RaceInit /\ EditorIdle

WorldSpec == WorldSpecInit /\ [][WorldNext]_vars


\* the level editor; the race program is a separate program
EditorSpecInit == EditorInit /\ RaceInit /\ level_index = DefaultLevelIndex

EditorSpec == EditorSpecInit /\ [][EditorNext]_vars

\* run for a user who leaves the sliders, checkboxes and level buttons
\* alone
RaceLiveNext ==
    \/ KeyE
    \/ KeyEscape
    \/ ClickStart
    \/ ClickReset
    \/ Frame
    \/ FinishedFrame

\* run never stops iterating: in the running state every loop iteration
\* calls update_physics and clock.tick lets the clock advance
RaceLiveSpec == RaceSpecInit /\ [][RaceLiveNext]_vars /\ WF_vars(Frame)

-----------------------------------------------------------------------------
(* Functions called on their own: the arguments are drawn in the initial
   state, an action applies the function and keeps what it returned *)

MaxLookupCands == 2     \* walls, and platforms, of a level that is searched

\* every variable of the two programs but call and result
pureFrame ==
    <<walls, platforms, objs, emitter, undo_stack, redo_stack, raised, ret,
      nexec, obsVars, mode, selVars, dragging_emitter, drawVars, grid_enabled,
      editorEvent, click_pos, rvars>>

\* both programs idle
PureIdle == EditorIdleFields /\ RaceInit /\ level_index = DefaultLevelIndex

LookupWalls ==
    {<<<<20, 20>>, <<60, 20>>>>, <<<<20, 40>>, <<60, 40>>>>,
     <<<<24, 26>>, <<24, 60>>>>, <<<<20, 20>>, <<26, 20>>>>}

LookupPlatforms ==
    {[pos |-> <<40, 30>>, length |-> 20, angular_velocity |-> 0],
     [pos |-> <<40, 50>>, length |-> 20, angular_velocity |-> 0],
     [pos |-> <<40, 45>>, length |-> 10, angular_velocity |-> 2]}

LookupPoints ==
    {<<40, 30>>, <<40, 24>>, <<40, 36>>, <<40, 31>>, <<20, 28>>, <<22, 26>>,
     <<25, 20>>, <<40, 45>>, <<40, 40>>, <<90, 90>>}

\* a LevelEditor with some walls and platforms, and a canvas position
LookupSpecInit ==
    /\ PureIdle
    /\ \E ws \in SeqsUpTo(LookupWalls, MaxLookupCands),
          ps \in SeqsUpTo(LookupPlatforms, MaxLookupCands),
          p \in LookupPoints :
          call = [walls |-> ws, platforms |-> ps, pos |-> p]
    /\ result = <<>>

CallFindWallAt ==
    /\ result' = <<"find_wall_at", find_wall_at(call.walls, call.pos)>>
    /\ UNCHANGED <<call, pureFrame>>

CallFindWallHandleAt ==
    /\ result' = <<"find_wall_handle_at",
                   find_wall_handle_at(call.walls, call.pos)>>
    /\ UNCHANGED <<call, pureFrame>>

CallFindPlatformAt ==
    /\ result' = <<"find_platform_at",
                   find_platform_at([i \in 1..Len(call.platforms) |-> i],
                                    call.platforms, call.pos)>>
    /\ UNCHANGED <<call, pureFrame>>

LookupNext == CallFindWallAt \/ CallFindWallHandleAt \/ CallFindPlatformAt

LookupSpec == LookupSpecInit /\ [][LookupNext]_vars

-----------------------------------------------------------------------------
(* level_io.py on whole documents.  A JSON value is a record with its type
   t and its value v: whole numbers for "int", halves for "float" (as the
   world coordinates), a sequence for "list", a function of the keys for
   "obj"; "str" is text that is not a number and "none" is null. *)

JInt(n) == [t |-> "int", n |-> n]
JFloat(h) == [t |-> "float", h |-> h]
JStr(s) == [t |-> "str", s |-> s]
JList(s) == [t |-> "list", items |-> s]
JObj(f) == [t |-> "obj", fields |-> f]
JNone == [t |-> "none"]

\* d.get(key, default) on a dict
DictGet(d, key, default) == IF key \in DOMAIN d.fields THEN d.fields[key] ELSE default

\* float(x) returns (ValueError or TypeError otherwise)
FloatOK(j) == j.t \in {"int", "float"}

\* float(x), in halves
PyFloat(j) == IF j.t = "int" THEN PyFloat2(j.n) ELSE j.h

\* int(x) of a number: truncation toward zero
PyInt(j) ==
    IF j.t = "int" THEN j.n
    ELSE IF j.h >= 0 THEN j.h \div 2 ELSE -((-j.h) \div 2)

\* (float(p[0]), float(p[1])) returns
PointOK(j) ==
    /\ j.t = "list"
    /\ Len(j.items) >= 2
    /\ FloatOK(j.items[1])
    /\ FloatOK(j.items[2])

PyPoint(j) == <<PyFloat(j.items[1]), PyFloat(j.items[2])>>

JPoint(x, y) == JList(<<JInt(x), JInt(y)>>)

\* the body of a loop of load_level returns for every element
WallOK(w) ==
    /\ w.t = "obj"
    /\ PointOK(DictGet(w, "start", JPoint(0, 0)))
    /\ PointOK(DictGet(w, "end", JPoint(0, 0)))

PlatformOK(p) ==
    /\ p.t = "obj"
    /\ PointOK(DictGet(p, "pos", JPoint(0, 0)))
    /\ FloatOK(DictGet(p, "length", JInt(40)))
    /\ FloatOK(DictGet(p, "angular_velocity", JFloat(0)))

ConveyorOK(c) ==
    /\ c.t = "obj"
    /\ PointOK(DictGet(c, "start", JPoint(0, 0)))
    /\ PointOK(DictGet(c, "end", JPoint(0, 0)))
    /\ FloatOK(DictGet(c, "speed", JFloat(200)))

\* "if emitter_data:" takes the branch
Truthy(j) ==
    CASE j.t = "none" -> FALSE
      [] j.t = "obj" -> DOMAIN j.fields # {}
      [] j.t = "list" -> j.items # <<>>
      [] j.t = "int" -> j.n # 0
      [] j.t = "float" -> j.h # 0
      [] OTHER -> TRUE

EmitterOK(e) ==
    ~Truthy(e) \/
        /\ e.t = "obj"
        /\ PointOK(DictGet(e, "pos", JPoint(400, 80)))
        /\ FloatOK(DictGet(e, "angle", JFloat(180)))
        /\ FloatOK(DictGet(e, "width", JFloat(120)))
        /\ FloatOK(DictGet(e, "rate", JFloat(40)))
        /\ FloatOK(DictGet(e, "count", JInt(100)))
        /\ FloatOK(DictGet(e, "speed", JFloat(100)))

\* get_default_emitter(), its floats in halves
get_default_emitter_halves ==
    [pos |-> <<2 * get_default_emitter.pos[1], 2 * get_default_emitter.pos[2]>>,
     angle |-> 2 * get_default_emitter.angle,
     width |-> 2 * get_default_emitter.width,
     rate |-> 2 * get_default_emitter.rate,
     count |-> get_default_emitter.count,
     speed |-> 2 * get_default_emitter.speed]

\* load_level on the parsed document: the level it returns, or the
\* exception that leaves it
load_level_data(data) ==
    LET ws == DictGet(data, "walls", JList(<<>>))
        ps == DictGet(data, "platforms", JList(<<>>))
        cs == DictGet(data, "conveyors", JList(<<>>))
        ed == DictGet(data, "emitter", JNone)
    IN IF ~ /\ ws.t = "list" /\ \A i \in 1..Len(ws.items) : WallOK(ws.items[i])
            /\ ps.t = "list" /\ \A i \in 1..Len(ps.items) : PlatformOK(ps.items[i])
            /\ EmitterOK(ed)
            /\ cs.t = "list" /\ \A i \in 1..Len(cs.items) : ConveyorOK(cs.items[i])
       THEN [raised |-> TRUE]
       ELSE [raised |-> FALSE,
             name |-> DictGet(data, "name", JStr("level")),
             walls |-> [i \in 1..Len(ws.items) |->
                 <<PyPoint(DictGet(ws.items[i], "start", JPoint(0, 0))),
                   PyPoint(DictGet(ws.items[i], "end", JPoint(0, 0)))>>],
             platforms |-> [i \in 1..Len(ps.items) |->
                 [pos |-> PyPoint(DictGet(ps.items[i], "pos", JPoint(0, 0))),
                  length |-> PyFloat(DictGet(ps.items[i], "length", JInt(40))),
                  angular_velocity |->
                      PyFloat(DictGet(ps.items[i], "angular_velocity", JFloat(0)))]],
             emitter |->
                 IF Truthy(ed)
                 THEN [pos |-> PyPoint(DictGet(ed, "pos", JPoint(400, 80))),
                       angle |-> PyFloat(DictGet(ed, "angle", JFloat(180))),
                       width |-> PyFloat(DictGet(ed, "width", JFloat(120))),
                       rate |-> PyFloat(DictGet(ed, "rate", JFloat(40))),
                       count |-> PyInt(DictGet(ed, "count", JInt(100))),
                       speed |-> PyFloat(DictGet(ed, "speed", JFloat(100)))]
                 ELSE get_default_emitter_halves,
             conveyors |-> [i \in 1..Len(cs.items) |->
                 [start |-> PyPoint(DictGet(cs.items[i], "start", JPoint(0, 0))),
                  end |-> PyPoint(DictGet(cs.items[i], "end", JPoint(0, 0))),
                  speed |-> PyFloat(DictGet(cs.items[i], "speed", JFloat(200)))]]]

\* [int(round(p[0])), int(round(p[1]))]
JRounded(p) == JPoint(PyRound2(p[1]), PyRound2(p[2]))

\* variant of save_level that writes the position of the emitter as it is
save_level_data_rawEmitterPos(ws, ps, em, cs, name) ==
    JObj([name |-> JStr(name),
          walls |-> JList([i \in 1..Len(ws) |->
              JObj([start |-> JRounded(ws[i][1]), end |-> JRounded(ws[i][2])])]),
          platforms |-> JList([i \in 1..Len(ps) |->
              JObj([pos |-> JRounded(ps[i].pos),
                    length |-> JInt(PyRound2(ps[i].length)),
                    angular_velocity |-> JFloat(ps[i].angular_velocity)])]),
          conveyors |-> JList([i \in 1..Len(cs) |->
              JObj([start |-> JRounded(cs[i].start),
                    end |-> JRounded(cs[i].end),
                    speed |-> JFloat(cs[i].speed)])]),
          emitter |-> JObj([pos |-> JList(<<JFloat(em.pos[1]), JFloat(em.pos[2])>>),
                            angle |-> JFloat(em.angle),
                            width |-> JFloat(em.width),
                            rate |-> JFloat(em.rate),
                            count |-> JInt(em.count),
                            speed |-> JFloat(em.speed)])])

\* the document save_level writes
save_level_data(ws, ps, em, cs, name) ==
    JObj([name |-> JStr(name),
          walls |-> JList([i \in 1..Len(ws) |->
              JObj([start |-> JRounded(ws[i][1]), end |-> JRounded(ws[i][2])])]),
          platforms |-> JList([i \in 1..Len(ps) |->
              JObj([pos |-> JRounded(ps[i].pos),
                    length |-> JInt(PyRound2(ps[i].length)),
                    angular_velocity |-> JFloat(ps[i].angular_velocity)])]),
          conveyors |-> JList([i \in 1..Len(cs) |->
              JObj([start |-> JRounded(cs[i].start),
                    end |-> JRounded(cs[i].end),
                    speed |-> JFloat(cs[i].speed)])]),
          emitter |-> JObj([pos |-> JRounded(em.pos),
                            angle |-> JFloat(em.angle),
                            width |-> JFloat(em.width),
                            rate |-> JFloat(em.rate),
                            count |-> JInt(em.count),
                            speed |-> JFloat(em.speed)])])

MaxIOItems == 1         \* walls, platforms and conveyors of a saved level

IOWalls == {<<<<41, 40>>, <<43, 45>>>>, <<<<40, 40>>, <<120, 40>>>>}

IOPlatforms ==
    {[pos |-> <<81, 60>>, length |-> 41, angular_velocity |-> 3],
     [pos |-> <<80, 60>>, length |-> 40, angular_velocity |-> 0]}

IOConveyors ==
    {[start |-> <<40, 101>>, end |-> <<83, 100>>, speed |-> 201],
     [start |-> <<40, 100>>, end |-> <<80, 100>>, speed |-> 200]}

IOEmitters ==
    {get_default_emitter_halves,
     [pos |-> <<801, 163>>, angle |-> 181, width |-> 121, rate |-> 5,
      count |-> 7, speed |-> 101]}

\* the fields a level document may hold: missing, complete, or malformed
DocWalls ==
    {<<>>,
     [walls |-> JList(<<>>)],
     [walls |-> JList(<<JObj([start |-> JPoint(20, 20), end |-> JPoint(60, 20)])>>)],
     [walls |-> JList(<<JObj([end |-> JPoint(60, 20)])>>)],
     [walls |-> JList(<<JObj([start |-> JList(<<JStr("x"), JInt(20)>>),
                              end |-> JPoint(60, 20)])>>)],
     [walls |-> JList(<<JObj([start |-> JList(<<JInt(20)>>),
                              end |-> JPoint(60, 20)])>>)]}

DocPlatforms ==
    {<<>>,
     [platforms |-> JList(<<JObj([pos |-> JPoint(40, 30), length |-> JInt(20),
                                  angular_velocity |-> JFloat(3)])>>)],
     [platforms |-> JList(<<JObj(<<>>)>>)],
     [platforms |-> JList(<<JObj([pos |-> JPoint(40, 30),
                                  length |-> JStr("long")])>>)]}

DocConveyors ==
    {<<>>,
     [conveyors |-> JList(<<JObj([start |-> JPoint(20, 50), end |-> JPoint(40, 50),
                                  speed |-> JInt(100)])>>)],
     [conveyors |-> JList(<<JObj([start |-> JPoint(20, 50)])>>)]}

DocEmitters ==
    {<<>>,
     [emitter |-> JObj(<<>>)],
     [emitter |-> JObj([rate |-> JInt(5)])],
     [emitter |-> JObj([pos |-> JPoint(300, 40), angle |-> JFloat(181),
                        width |-> JInt(40), rate |-> JFloat(5),
                        count |-> JInt(7), speed |-> JInt(60)])],
     [emitter |-> JObj([rate |-> JStr("fast")])],
     [emitter |-> JStr("top")]}

DocNames == {<<>>, [name |-> JStr("edited")]}

\* a level to save and load back, or a document to load
LevelIOSpecInit ==
    /\ PureIdle
    /\ \/ \E ws \in SeqsUpTo(IOWalls, MaxIOItems),
             ps \in SeqsUpTo(IOPlatforms, MaxIOItems),
             cs \in SeqsUpTo(IOConveyors, MaxIOItems),
             em \in IOEmitters :
             call = [kind |-> "level", walls |-> ws, platforms |-> ps,
                     conveyors |-> cs, emitter |-> em, name |-> "level"]
       \/ \E w \in DocWalls, p \in DocPlatforms, c \in DocConveyors,
             e \in DocEmitters, n \in DocNames :
             call = [kind |-> "document", data |-> JObj(w @@ p @@ c @@ e @@ n)]
    /\ result = <<>>

\* save_level, then load_level of the file
CallSaveThenLoad ==
    /\ call.kind = "level"
    /\ result' = <<"save_load",
                   load_level_data(
                       save_level_data(call.walls, call.platforms, call.emitter,
                                       call.conveyors, call.name))>>
    /\ UNCHANGED <<call, pureFrame>>

CallLoadLevel ==
    /\ call.kind = "document"
    /\ result' = <<"load_level", load_level_data(call.data)>>
    /\ UNCHANGED <<call, pureFrame>>

\* LevelEditor.load_level(path) followed by LevelEditor.save_level(): the
\* editor keeps walls, platforms, emitter and name of the loaded level (its
\* previous level prev when load_level raised) and saves those
LevelEditor_load_then_save(data, prev) ==
    LET level == load_level_data(data)
        kept == IF level.raised
                THEN prev
                ELSE [walls |-> level.walls, platforms |-> level.platforms,
                      emitter |-> level.emitter, name |-> level.name.s]
    IN save_level_data(kept.walls, kept.platforms, kept.emitter, <<>>,
                       kept.name)

\* the level of the editor after new_level
EditorNewLevel ==
    [walls |-> <<>>, platforms |-> <<>>,
     emitter |-> get_default_emitter_halves, name |-> "untitled"]

\* a level button of the editor, then the Save button
CallEditorLoadThenSave ==
    /\ call.kind = "document"
    /\ result' = <<"editor_load_save",
                   LevelEditor_load_then_save(call.data, EditorNewLevel)>>
    /\ UNCHANGED <<call, pureFrame>>

LevelIONext == CallSaveThenLoad \/ CallLoadLevel \/ CallEditorLoadThenSave

LevelIOSpec == LevelIOSpecInit /\ [][LevelIONext]_vars

-----------------------------------------------------------------------------
(* Configuration values: a Slider of the race program under mouse events,
   and the rate field of the editor's emitter panel up to the preview that
   uses the rate.  call holds the slider and the text of the field. *)

MaxText == 5            \* characters in the rate field

slider_width == 250 - 2 * 20

\* the sliders of MarbleSimulation.__init__; values in hundredths
Sliders ==
    {[label |-> "Timer (sec)", min_val |-> 100, max_val |-> 6000, initial_val |-> 3000],
     [label |-> "Gravity", min_val |-> 0, max_val |-> 100000, initial_val |-> 35000],
     [label |-> "Bounciness", min_val |-> 50, max_val |-> 200, initial_val |-> 90],
     [label |-> "Speed", min_val |-> 25, max_val |-> 150, initial_val |-> 75],
     [label |-> "Emit Rate", min_val |-> 100, max_val |-> 5000, initial_val |-> 2000],
     [label |-> "Marble Count", min_val |-> 1000, max_val |-> 20000, initial_val |-> 10000]}

\* mouse_x - self.x of a mouse event: left of the track, on it, right of it
MouseOffsets == {-15, 0, 70, slider_width, slider_width + 15}

\* Slider._update_value_from_mouse: the value, as a fraction over the width
Slider_update_value_from_mouse(s, offset) ==
    LET ratio == IF offset < 0 THEN 0
                 ELSE IF offset > slider_width THEN slider_width ELSE offset
    IN <<s.min_val * slider_width + ratio * (s.max_val - s.min_val),
         slider_width>>

DigitChars == <<"0", "1", "2", "3", "4", "5", "6", "7", "8", "9">>

IsDigit(c) == \E i \in 1..10 : DigitChars[i] = c

DigitValue(c) == (CHOOSE i \in 1..10 : DigitChars[i] = c) - 1

RECURSIVE ToDigits(_)
ToDigits(n) ==
    IF n < 10 THEN <<DigitChars[n + 1]>>
    ELSE Append(ToDigits(n \div 10), DigitChars[(n % 10) + 1])

RECURSIVE DigitsValue(_)
DigitsValue(t) ==
    IF t = <<>> THEN 0
    ELSE 10 * DigitsValue(SubSeq(t, 1, Len(t) - 1)) + DigitValue(t[Len(t)])

\* InputField.set_value of the float of a whole, non-negative number:
\* f"{value:.1f}"
InputField_set_value(v) == ToDigits(v) \o <<".", "0">>

\* float(text) returns: an optional sign, digits, at most one point; the
\* texts of the model have only zeros after the point
IsFloatText(t) ==
    LET body == IF t # <<>> /\ t[1] = "-" THEN Tail(t) ELSE t
        points == {i \in 1..Len(body) : body[i] = "."}
    IN /\ Cardinality(points) <= 1
       /\ \A i \in (1..Len(body)) \ points : IsDigit(body[i])
       /\ \E i \in 1..Len(body) : IsDigit(body[i])

\* InputField.get_float(): float(self.value), 0.0 on ValueError
InputField_get_float(t) ==
    IF ~IsFloatText(t) THEN 0
    ELSE LET neg == t[1] = "-"
             body == IF neg THEN Tail(t) ELSE t
             whole == IF \E i \in 1..Len(body) : body[i] = "."
                      THEN SubSeq(body, 1,
                                  (CHOOSE i \in 1..Len(body) : body[i] = ".") - 1)
                      ELSE body
         IN IF neg THEN -DigitsValue(whole) ELSE DigitsValue(whole)

\* the keys typed into the field
FieldKeys == {"0", "-", "backspace"}

\* InputField.handle_event: the text after a key
InputField_handle_key(t, key) ==
    IF key = "backspace"
    THEN IF t = <<>> THEN t ELSE SubSeq(t, 1, Len(t) - 1)
    ELSE Append(t, key)

\* what the configuration machine leaves alone
configFrame ==
    <<walls, platforms, objs, undo_stack, redo_stack, ret, nexec, obsVars,
      selected_wall, selected_platform, selected_handle, dragging_emitter,
      drawVars, grid_enabled, editorEvent, click_pos, rvars>>

\* one of the sliders at its initial value; the editor with its default
\* emitter and no property field
ConfigSpecInit ==
    /\ PureIdle
    /\ \E s \in Sliders :
          call = [slider |-> s, value |-> <<s.initial_val, 1>>, text |-> <<>>]
    /\ result = <<>>

\* Slider.handle_event: button down on the track, or motion while dragging
SliderMouse ==
    /\ \E offset \in MouseOffsets :
          call' = [call EXCEPT !.value =
                      Slider_update_value_from_mouse(call.slider, offset)]
    /\ UNCHANGED <<emitter, mode, raised, selected_emitter, result, configFrame>>

\* a click on the emitter in select mode: update_property_fields
SelectEmitter ==
    /\ ~raised
    /\ mode = "select"
    /\ emitter.rate >= 0
    /\ selected_emitter' = TRUE
    /\ call' = [call EXCEPT !.text = InputField_set_value(emitter.rate)]
    /\ UNCHANGED <<emitter, mode, raised, result, configFrame>>

\* a key in the active rate field: handle_event, apply_property_changes
FieldKey ==
    /\ ~raised
    /\ mode = "select"
    /\ selected_emitter
    /\ \E key \in FieldKeys :
          /\ key # "backspace" => Len(call.text) < MaxText
          /\ call' = [call EXCEPT !.text = InputField_handle_key(call.text, key)]
          /\ emitter' = [emitter EXCEPT !.rate = InputField_get_float(call'.text)]
    /\ UNCHANGED <<mode, raised, selected_emitter, result, configFrame>>

\* Space: preview.start(walls, platforms, emitter)
ConfigStartPreview ==
    /\ ~raised
    /\ mode = "select"
    /\ mode' = "preview"
    /\ result' = <<>>
    /\ UNCHANGED <<emitter, raised, selected_emitter, call, configFrame>>

\* Escape in preview mode: preview.stop(), set_mode(select)
ConfigStopPreview ==
    /\ ~raised
    /\ mode = "preview"
    /\ mode' = "select"
    /\ selected_emitter' = FALSE
    /\ UNCHANGED <<emitter, raised, result, call, configFrame>>

\* PreviewManager.update with marbles in the queue: emit_interval = 1.0 / rate
PreviewUpdate ==
    /\ ~raised
    /\ mode = "preview"
    /\ emitter.count > 0
    /\ result' = [rate |-> emitter.rate,
                  raised |-> IF emitter.rate = 0 THEN "ZeroDivisionError"
                             ELSE "None"]
    /\ raised' = (emitter.rate = 0)
    /\ UNCHANGED <<emitter, mode, selected_emitter, call, configFrame>>

ConfigNext ==
    \/ SliderMouse
    \/ SelectEmitter
    \/ FieldKey
    \/ ConfigStartPreview
    \/ ConfigStopPreview
    \/ PreviewUpdate

ConfigSpec == ConfigSpecInit /\ [][ConfigNext]_vars

-----------------------------------------------------------------------------
(* prepare_marble_queue_with_count with shapes, colours and names.  The
   pools are cut to their first MaxPoolShapes and MaxPoolColors entries. *)

MaxPoolShapes == 2      \* shape types in the pool when shapes are random
MaxPoolColors == 2      \* colour names in the pool when colours are random
MaxPoolCount == 5       \* marbles asked for

shape_types == <<0, 3, 4, 5, 6>>

color_names ==
    <<"Red", "Orange", "Gold", "Yellow", "Lime", "Green", "Teal", "Cyan",
      "Sky", "Blue", "Purple", "Magenta", "Pink">>

SHAPE_NAMES ==
    [s \in {0, 3, 4, 5, 6} |->
        CASE s = 0 -> "Circle" [] s = 3 -> "Triangle" [] s = 4 -> "Square"
          [] s = 5 -> "Pentagon" [] s = 6 -> "Hexagon"]

avail_shapes(rand_shape) ==
    IF rand_shape
    THEN SubSeq(shape_types, 1, Min(MaxPoolShapes, Len(shape_types)))
    ELSE <<0>>

avail_colors(rand_color) ==
    IF rand_color
    THEN SubSeq(color_names, 1, Min(MaxPoolColors, Len(color_names)))
    ELSE <<"Red">>

\* the combinations, colour by colour and shape by shape; base_name is the
\* pair that f"{color_name} {shape_name}" joins
all_combinations(rand_shape, rand_color) ==
    LET shapes == avail_shapes(rand_shape)
        colors == avail_colors(rand_color)
    IN [k \in 1..(Len(colors) * Len(shapes)) |->
           LET color_name == colors[((k - 1) \div Len(shapes)) + 1]
               shape_type == shapes[((k - 1) % Len(shapes)) + 1]
           IN [color_name |-> color_name,
               shape_type |-> shape_type,
               base_name |-> <<color_name, SHAPE_NAMES[shape_type]>>]]

\* how many times c occurs in the list s
TimesIn(s, c) == Cardinality({i \in 1..Len(s) : s[i] = c})

\* random.sample(population, k): k different positions, in any order
RandomSamples(n, k) ==
    {s \in [1..k -> 1..n] : \A i, j \in 1..k : i # j => s[i] # s[j]}

\* random.shuffle(base): the orders the list can get
Shuffles(base, n) ==
    {s \in [1..Len(base) -> 1..n] :
        \A c \in 1..n : TimesIn(s, c) = TimesIn(base, c)}

RECURSIVE Cycles(_, _)
Cycles(n, cycles) ==
    IF cycles = 0 THEN <<>> ELSE [i \in 1..n |-> i] \o Cycles(n, cycles - 1)

\* the definition appended for the i-th entry of the list of picked
\* combinations; number 0 stands for a name without a suffix
MarbleDef(combos, picked, i, numbered, rand_size) ==
    [id |-> i,
     radius |-> IF rand_size THEN "uniform" ELSE "MARBLE_RADIUS",
     shape_type |-> combos[picked[i]].shape_type,
     color |-> combos[picked[i]].color_name,
     name |-> <<combos[picked[i]].base_name,
                IF numbered
                THEN TimesIn(SubSeq(picked, 1, i), picked[i])
                ELSE 0>>]

\* variant in which the duplicated pool is filled with random.choice
prepare_marble_queue_full_choice(rand_shape, rand_color, rand_size, count) ==
    LET combos == all_combinations(rand_shape, rand_color)
        n == Len(combos)
    IN IF n >= count
       THEN {[i \in 1..count |-> MarbleDef(combos, s, i, FALSE, rand_size)] :
                s \in RandomSamples(n, count)}
       ELSE {[i \in 1..count |-> MarbleDef(combos, s, i, TRUE, rand_size)] :
                s \in [1..count -> 1..n]}

\* the queues prepare_marble_queue_with_count can leave in marble_queue
prepare_marble_queue_full(rand_shape, rand_color, rand_size, count) ==
    LET combos == all_combinations(rand_shape, rand_color)
        n == Len(combos)
    IN IF n >= count
       THEN {[i \in 1..count |-> MarbleDef(combos, s, i, FALSE, rand_size)] :
                s \in RandomSamples(n, count)}
       ELSE LET num_full_cycles == count \div n
                remainder == count % n
                base_lists == {Cycles(n, num_full_cycles) \o r :
                                  r \in RandomSamples(n, remainder)}
            IN {[i \in 1..count |-> MarbleDef(combos, s, i, TRUE, rand_size)] :
                   s \in UNION {Shuffles(b, n) : b \in base_lists}}

\* the checkboxes and the count
PoolSpecInit ==
    /\ PureIdle
    /\ \E rs \in BOOLEAN, rc \in BOOLEAN, rz \in BOOLEAN, n \in 1..MaxPoolCount :
          call = [rand_shape |-> rs, rand_color |-> rc, rand_size |-> rz,
                  count |-> n]
    /\ result = <<>>

CallPrepareMarbleQueue ==
    /\ result = <<>>
    /\ \E q \in prepare_marble_queue_full(call.rand_shape, call.rand_color,
                                          call.rand_size, call.count) :
          result' = <<"prepare_marble_queue_with_count", q>>
    /\ UNCHANGED <<call, pureFrame>>

PoolNext == CallPrepareMarbleQueue

PoolSpec == PoolSpecInit /\ [][PoolNext]_vars

-----------------------------------------------------------------------------
(* GridSystem.snap_point for any cell size *)

MaxCellSize == 5        \* cell sizes 1..MaxCellSize of the grid
MaxSnapCoord == 8       \* coordinates -MaxSnapCoord..MaxSnapCoord of the point

\* round(x / size) * size, where round takes a half to the even neighbour
GridSystem_snap_coord(size, x) ==
    LET q == x \div size
        r == x % size
    IN IF 2 * r < size THEN q * size
       ELSE IF 2 * r > size THEN (q + 1) * size
       ELSE IF q % 2 = 0 THEN q * size ELSE (q + 1) * size

\* variant of snap_point that forgets to multiply by the size
GridSystem_snap_point_noScale(size, enabled, point) ==
    IF ~enabled THEN point
    ELSE <<GridSystem_snap_coord(size, point[1]) \div size,
           GridSystem_snap_coord(size, point[2]) \div size>>

GridSystem_snap_point(size, enabled, point) ==
    IF ~enabled THEN point
    ELSE <<GridSystem_snap_coord(size, point[1]),
           GridSystem_snap_coord(size, point[2])>>

\* a GridSystem and a point
SnapSpecInit ==
    /\ PureIdle
    /\ \E size \in 1..MaxCellSize, enabled \in BOOLEAN,
          x \in -MaxSnapCoord..MaxSnapCoord, y \in {-3, 0, 7} :
          call = [size |-> size, enabled |-> enabled, point |-> <<x, y>>]
    /\ result = <<>>

\* snap_point(point)
CallSnapPoint ==
    /\ result = <<>>
    /\ result' = <<GridSystem_snap_point(call.size, call.enabled, call.point)>>
    /\ UNCHANGED <<call, pureFrame>>

\* snap_point of the point snap_point returned
CallSnapPointAgain ==
    /\ Len(result) = 1
    /\ result' = Append(result,
                        GridSystem_snap_point(call.size, call.enabled, result[1]))
    /\ UNCHANGED <<call, pureFrame>>

SnapNext == CallSnapPoint \/ CallSnapPointAgain

SnapSpec == SnapSpecInit /\ [][SnapNext]_vars
----------------------------------------------------------------------------
(* Properties of the race (RaceSpec) *)

IsPrefix(a, b) == Len(a) <= Len(b) /\ SubSeq(b, 1, Len(a)) = a

NoDup(q) == \A i, j \in 1..Len(q) : i # j => q[i] # q[j]

Occurrences(q, x) == Cardinality({k \in 1..Len(q) : q[k] = x})

MarbleById(id) == marbles[CHOOSE i \in 1..Len(marbles) : marbles[i].id = id]

\* C5: the number of marbles ever spawned, which is the number of marble
\* records created, never exceeds the marble count configured at start.
EmittedWithinCount ==
    /\ marbles_emitted <= marble_count
    /\ Len(marbles) = marbles_emitted

AllMarblesEmitted ==
    /\ state = "running"
    /\ marble_queue = <<>>
    /\ marbles_emitted = marble_count
    /\ marble_count = MaxMarbles
    /\ nticks > marble_count

\* C6: after n running ticks of constant dt the number of marbles spawned
\* is min(count, floor(T * rate)) with T = n * dt = n * sim_speed / FPS.
EmissionCount ==
    marbles_emitted =
        Min(marble_count, (nticks * sim_speed * emit_rate) \div (4 * FPS))

\* C7: while running, a tick leaves the previous FinishRank as a prefix of
\* the new one, no marble is in it twice and it is no longer than the
\* marble count.
RankAppendOnly ==
    [][(state = "running" /\ lastEvent' = "frame") =>
          /\ IsPrefix(finished_rank, finished_rank')
          /\ NoDup(finished_rank')
          /\ Len(finished_rank') <= marble_count']_vars

RankGrewWhileRunning ==
    /\ state = "running"
    /\ lastEvent = "frame"
    /\ Len(finished_rank) >= 2
    /\ Len(marbles) > Len(finished_rank)

\* C8 as claimed: in the finished state len(FinishRank) = marble count if
\* and only if the race ended by the completion condition.
FullRankIffCompletion ==
    state = "finished" =>
        (Len(finished_rank) = marble_count <=> end_cause = "completion")

\* C8 amended: in the finished state len(FinishRank) = marble count if and
\* only if the race ended by completion, or by timeout after every marble
\* of the queue had been emitted.
FullRankIffCompletionOrAllEmitted ==
    state = "finished" =>
        (Len(finished_rank) = marble_count <=>
            \/ end_cause = "completion"
            \/ (end_cause = "timeout" /\ marbles_emitted = marble_count))

TimeoutWithFullRank ==
    /\ state = "finished"
    /\ end_cause = "timeout"
    /\ Len(finished_rank) = marble_count
    /\ rank_at_check < marble_count

\* C9: when the race ends by timeout, in that step every marble not yet
\* finished becomes inactive, tied_for_last and leaves the physics world,
\* every marble is in FinishRank exactly once, the tied ones after all
\* earlier finishers, and the earlier finishers are not tied_for_last.
TimeoutTiesForLast ==
    end_cause = "timeout" =>
        /\ \A i \in 1..Len(marbles) :
              /\ ~marbles[i].active
              /\ marbles[i].id \notin space_bodies
              /\ Occurrences(finished_rank, marbles[i].id) = 1
        /\ \A k \in 1..Len(finished_rank) :
              MarbleById(finished_rank[k]).tied_for_last <=> k > rank_at_check

TimeoutWithFinishersAndTies ==
    /\ state = "finished"
    /\ end_cause = "timeout"
    /\ rank_at_check >= 1
    /\ Len(finished_rank) >= rank_at_check + 2

\* C10 as claimed: edit is entered only from ready or running.
EditOnlyFromReadyOrRunning ==
    [][(state # "edit" /\ state' = "edit") =>
          state \in {"ready", "running"}]_vars

\* C10 amended: edit is entered only by the editor toggle command, from
\* ready, running or finished, and the toggle records the state it left.
EditOnlyByToggle ==
    [][(state # "edit" /\ state' = "edit") =>
          /\ lastEvent' = "key_e"
          /\ state \in {"ready", "running", "finished"}
          /\ prev_state' = state]_vars

EditEnteredFromFinished ==
    /\ state = "edit"
    /\ prev_state = "finished"
    /\ lastEvent = "key_e"


\* C11: leaving edit always lands in ready, whatever state edit was
\* entered from, with no marbles, an empty FinishRank, an emitted count of
\* 0, no marble body in the world, and the sliders and the start button
\* visible.
ExitEditLandsInReady ==
    [][(state = "edit" /\ state' # "edit") =>
          /\ state' = "ready"
          /\ marbles' = <<>>
          /\ finished_rank' = <<>>
          /\ marbles_emitted' = 0
          /\ space_bodies' = {}
          /\ sliders_visible'
          /\ start_visible']_vars

ExitedEditEnteredFromRunning ==
    /\ state = "ready"
    /\ lastEvent = "key_e"
    /\ prev_state = "running"
    /\ sim_speed > 0

\* C12: whenever the state is ready the marble list and FinishRank are
\* empty, marbles_emitted and the emission accumulator are 0, and the
\* physics world holds no marble body.
ReadyIsCleared ==
    state = "ready" =>
        /\ marbles = <<>>
        /\ finished_rank = <<>>
        /\ marbles_emitted = 0
        /\ emit_accumulator = 0
        /\ space_bodies = {}

ReadyAfterEscape ==
    /\ state = "ready"
    /\ lastEvent = "key_escape"
    /\ sim_speed > 0

\* C13: the step that enters running leaves a queue of exactly
\* int(marble-count slider) definitions and takes gravity, time limit,
\* speed, emission rate and marble count from the sliders; every step that
\* stays in running keeps these values and the bounciness, and every
\* marble carries that bounciness.
StartLocksConfiguration ==
    [][/\ (state # "running" /\ state' = "running") =>
             /\ Len(marble_queue') = PyInt10(marble_count_slider)
             /\ marble_count' = PyInt10(marble_count_slider)
             /\ gravity' = gravity_slider
             /\ time_limit' = timer_slider
             /\ sim_speed' = speed_slider
             /\ emit_rate' = emit_rate_slider
       /\ (state = "running" /\ state' = "running") =>
             /\ UNCHANGED <<gravity, time_limit, sim_speed, emit_rate,
                            marble_count, bounce_slider>>
             /\ \A i \in 1..Len(marbles') :
                   marbles'[i].elasticity = bounce_slider]_vars

RunningWithMovedSliders ==
    /\ state = "running"
    /\ lastEvent = "frame"
    /\ marbles # <<>>
    /\ marble_count = 1
    /\ marble_count_slider # 10 * MaxMarbles
    /\ gravity = 1000
    /\ bounce_slider = 150

\* C14: the k-th marble spawned is the k-th definition of the queue
\* generated at start: the ids of the marble records, in spawn order, are
\* 1, 2, 3, ... and the queue holds the ids that follow, in order.
SpawnOrderIsQueueOrder ==
    /\ \A i \in 1..Len(marbles) : marbles[i].id = i
    /\ \A k \in 1..Len(marble_queue) : marble_queue[k].id = Len(marbles) + k

SeveralSpawnedSomeQueued ==
    /\ state = "running"
    /\ Len(marbles) >= 2
    /\ marble_queue # <<>>

\* C15: the ids of all marble records (active or finished) together with
\* the ids still in the queue are pairwise distinct.
IdsNeverRespawned ==
    NoDup([i \in 1..Len(marbles) |-> marbles[i].id]
          \o [k \in 1..Len(marble_queue) |-> marble_queue[k].id])

ActiveFinishedAndQueuedIds ==
    /\ state = "running"
    /\ marble_queue # <<>>
    /\ \E i \in 1..Len(marbles) : marbles[i].active
    /\ \E i \in 1..Len(marbles) : ~marbles[i].active

\* C16: on a tick where the finished count equals the marble count and
\* the time limit has also elapsed, the race ends by completion and no
\* marble is flagged tied_for_last.
CompletionCheckedBeforeTimeout ==
    [][(/\ state = "running"
        /\ lastEvent' = "frame"
        /\ raised_in' = "None"
        /\ rank_at_check' = marble_count
        /\ elapsed >= time_limit) =>
          /\ state' = "finished"
          /\ end_cause' = "completion"
          /\ \A i \in 1..Len(marbles') : ~marbles'[i].tied_for_last]_vars

CompletedOnTheTimeoutTick ==
    /\ state = "finished"
    /\ end_cause = "completion"
    /\ Len(finished_rank) = marble_count
    /\ elapsed - MaxFrameTime >= time_limit

\* C17: no remove is issued for a static shape that is not registered in
\* the current physics world, and the wall and conveyor shapes registered
\* in the world are exactly those built from the current level model.
NoStaleStaticHandles ==
    /\ raised_in \notin {"rebuild_walls", "create_conveyors"}
    /\ space_walls = level_walls
    /\ space_conveyors = level_conveyors

\* C18: a marble's body and shape are registered in the physics world if
\* and only if the marble is active, the world holds no other marble
\* body, and no remove is issued for a marble body that is not registered.
MarblesMirrored ==
    /\ \A i \in 1..Len(marbles) :
          (marbles[i].id \in space_bodies) <=> marbles[i].active
    /\ space_bodies \subseteq {marbles[i].id : i \in 1..Len(marbles)}
    /\ raised_in \notin {"update_physics", "end_with_timeout"}

SomeMarblesLeftTheWorld ==
    /\ lastEvent = "frame"
    /\ Len(finished_rank) >= 1
    /\ Cardinality(space_bodies) >= 1
    /\ Len(marbles) = Len(finished_rank) + Cardinality(space_bodies)


----------------------------------------------------------------------------
(* Properties of the level editor (EditorSpec) *)

SelectedTargets ==
    (IF selected_wall # NoIndex THEN {"wall"} ELSE {})
    \cup (IF selected_platform # NoIndex THEN {"platform"} ELSE {})
    \cup (IF selected_emitter THEN {"emitter"} ELSE {})

\* C19: after any sequence of editor operations at most one of
\* selected_wall, selected_platform and selected_emitter is set, so that
\* selecting a target replaces any prior selection.
SingleSelection == Cardinality(SelectedTargets) <= 1

EmitterStaysSelectedInNewLevel ==
    /\ editorEvent = "new"
    /\ selected_emitter
    /\ undo_stack = <<>>
    /\ nexec > 0

\* the targets within their thresholds of the last canvas click
HandleNearClick ==
    \E i \in 1..Len(walls) :
        \/ SqDist(click_pos, walls[i][1]) <= 8 * 8
        \/ SqDist(click_pos, walls[i][2]) <= 8 * 8

WallNearClick ==
    \E i \in 1..Len(walls) :
        FracLE(LevelEditor_distance_to_segment(click_pos, walls[i][1], walls[i][2]),
               <<10 * 10, 1>>)

PlatformNearClick ==
    \E i \in 1..Len(platforms) :
        LET p == objs[platforms[i]]
        IN FracLE(LevelEditor_distance_to_segment(
                      click_pos, <<p.pos[1] - p.length, p.pos[2]>>,
                      <<p.pos[1] + p.length, p.pos[2]>>),
                  <<15 * 15, 1>>)

EmitterNearClick == SqDist(click_pos, emitter.pos) <= 30 * 30

\* C20: a click in select mode picks the wall-endpoint handle, else the
\* wall body, else the platform, else the emitter, else nothing: a target
\* is selected exactly when it is within its threshold of the click and no
\* target of higher priority is; a click near nothing clears the selection.
SelectPriority ==
    (editorEvent = "click" /\ mode = "select") =>
        /\ selected_handle # NoHandle <=> HandleNearClick
        /\ selected_wall # NoIndex <=> (HandleNearClick \/ WallNearClick)
        /\ selected_platform # NoIndex <=>
              (~HandleNearClick /\ ~WallNearClick /\ PlatformNearClick)
        /\ selected_emitter <=>
              (~HandleNearClick /\ ~WallNearClick /\ ~PlatformNearClick
               /\ EmitterNearClick)

WallPickedOverPlatform ==
    /\ editorEvent = "click"
    /\ mode = "select"
    /\ selected_wall # NoIndex
    /\ selected_handle = NoHandle
    /\ PlatformNearClick
    /\ EmitterNearClick

\* C21: in wall mode a release of the mouse commits exactly one AddWall
\* command when the drag is longer than the minimum length (walls grows by
\* the dragged segment, the undo stack by one, the redo stack is cleared),
\* and otherwise leaves walls and both stacks unchanged; nothing is raised
\* and the drawing state is cleared in both cases.
WallReleaseCommits ==
    [][(mode = "wall" /\ editorEvent' = "mouse_up") =>
          /\ IF drawing /\ SqDist(draw_start, draw_end) > 5 * 5
             THEN /\ walls' = Append(walls, <<draw_start, draw_end>>)
                  /\ undo_stack' =
                        Append(undo_stack, AddWallCommand(<<draw_start, draw_end>>))
                  /\ redo_stack' = <<>>
             ELSE UNCHANGED <<walls, undo_stack, redo_stack>>
          /\ ~raised'
          /\ ~drawing'
          /\ draw_start' = NoPos
          /\ draw_end' = NoPos
          /\ UNCHANGED <<platforms, emitter>>]_vars

WallCommittedAfterUndo ==
    /\ mode = "wall"
    /\ editorEvent = "mouse_up"
    /\ nexec = 2
    /\ Len(undo_stack) = 1
    /\ undo_stack[1].kind = "AddWall"
    /\ redo_stack = <<>>
    /\ walls # <<>>

\* the nearest candidate within the threshold, the first one among equally
\* near ones (one-based; 0 if there is none)
NearestWithin(ds, threshold) ==
    IF \E i \in 1..Len(ds) : FracLE(ds[i], <<threshold * threshold, 1>>)
    THEN CHOOSE i \in 1..Len(ds) :
            /\ \A j \in 1..Len(ds) : FracLE(ds[i], ds[j])
            /\ \A j \in 1..(i - 1) : FracLT(ds[i], ds[j])
    ELSE 0

WallDistancesTo(pos) ==
    [i \in 1..Len(walls) |->
        LevelEditor_distance_to_segment(pos, walls[i][1], walls[i][2])]

PlatformDistancesTo(pos) ==
    [i \in 1..Len(platforms) |->
        LET p == objs[platforms[i]]
        IN LevelEditor_distance_to_segment(
               pos, <<p.pos[1] - p.length, p.pos[2]>>,
               <<p.pos[1] + p.length, p.pos[2]>>)]

\* C22: a click in delete mode removes the nearest platform within the
\* platform threshold if there is one, else the nearest wall within the
\* wall threshold, else nothing; the element at the hit position is the
\* one removed, and the undo stack grows by exactly one Delete command if
\* and only if an element was removed.
DeleteClickRemovesHit ==
    [][(mode = "delete" /\ editorEvent' = "click") =>
          LET hitP == NearestWithin(PlatformDistancesTo(click_pos'), 15)
              hitW == NearestWithin(WallDistancesTo(click_pos'), 10)
          IN /\ ~raised'
             /\ IF hitP # 0
                THEN /\ platforms' = RemoveAt(platforms, hitP)
                     /\ walls' = walls
                     /\ undo_stack' =
                           Append(undo_stack,
                                  DeletePlatformCommand(platforms[hitP], hitP - 1))
                ELSE IF hitW # 0
                THEN /\ walls' = RemoveAt(walls, hitW)
                     /\ platforms' = platforms
                     /\ undo_stack' =
                           Append(undo_stack,
                                  DeleteWallCommand(walls[hitW], hitW - 1))
                ELSE UNCHANGED <<walls, platforms, undo_stack, redo_stack>>]_vars

SecondPlatformDeleted ==
    /\ mode = "delete"
    /\ editorEvent = "click"
    /\ nexec = 2
    /\ Len(undo_stack) = 2
    /\ undo_stack[2].kind = "DeletePlatform"
    /\ undo_stack[2].index = 1
    /\ Len(platforms) = 1
    /\ walls # <<>>

\* C23: a drag of a wall endpoint or of the emitter changes the level
\* without recording a command (both stacks stay as they are), while a
\* click in emitter mode records exactly one ModifyEmitter command.
DragsBypassHistory ==
    [][/\ editorEvent' = "motion" =>
             UNCHANGED <<undo_stack, redo_stack>>
       /\ (mode = "emitter" /\ editorEvent' = "click") =>
             /\ undo_stack' =
                   Append(undo_stack,
                          ModifyEmitterCommand(
                              emitter,
                              [emitter EXCEPT !.pos =
                                  snap_point(grid_enabled, click_pos')]))
             /\ emitter' = [emitter EXCEPT !.pos =
                               snap_point(grid_enabled, click_pos')]
             /\ redo_stack' = <<>>]_vars

WallAndEmitterDragged ==
    /\ editorEvent = "motion"
    /\ nexec = 0
    /\ undo_stack = <<>>
    /\ walls # EditorLevelFiles[1].walls
    /\ emitter # EditorLevelFiles[1].emitter

\* the distances of the candidates of the call
CallWallDistances ==
    [i \in 1..Len(call.walls) |->
        LevelEditor_distance_to_segment(call.pos, call.walls[i][1],
                                        call.walls[i][2])]

CallPlatformDistances ==
    [i \in 1..Len(call.platforms) |->
        LET p == call.platforms[i]
        IN LevelEditor_distance_to_segment(
               call.pos, <<p.pos[1] - p.length, p.pos[2]>>,
               <<p.pos[1] + p.length, p.pos[2]>>)]

Returned(fn) == result # <<>> /\ result[1] = fn

\* C24: find_wall_at and find_platform_at return the index of the candidate
\* with the smallest distance among those within the threshold, the first
\* one in the order of the collection when several are at that smallest
\* distance, and none when no candidate is within the threshold.
NearestFirstOnTies ==
    /\ Returned("find_wall_at") =>
          result[2] = IF NearestWithin(CallWallDistances, 10) = 0
                      THEN NoIndex
                      ELSE NearestWithin(CallWallDistances, 10) - 1
    /\ Returned("find_platform_at") =>
          result[2] = IF NearestWithin(CallPlatformDistances, 15) = 0
                      THEN NoIndex
                      ELSE NearestWithin(CallPlatformDistances, 15) - 1

\* the second of two equally near walls is passed over, and so is a nearer
\* candidate's farther predecessor
FirstOfTwoEquallyNear ==
    /\ Returned("find_wall_at")
    /\ result[2] = 0
    /\ Len(call.walls) = 2
    /\ call.walls[1] # call.walls[2]
    /\ CallWallDistances[1] = CallWallDistances[2]

\* C25 as amended: the lookups accept the candidates whose distance is at
\* most the threshold: nothing farther than the threshold is returned, and
\* a lookup returns a candidate whenever one is at a distance smaller than
\* or exactly equal to the threshold.
WithinThresholdInclusive ==
    /\ Returned("find_wall_at") =>
          IF result[2] = NoIndex
          THEN \A i \in 1..Len(call.walls) :
                  ~FracLE(CallWallDistances[i], <<10 * 10, 1>>)
          ELSE FracLE(CallWallDistances[result[2] + 1], <<10 * 10, 1>>)
    /\ Returned("find_platform_at") =>
          IF result[2] = NoIndex
          THEN \A i \in 1..Len(call.platforms) :
                  ~FracLE(CallPlatformDistances[i], <<15 * 15, 1>>)
          ELSE FracLE(CallPlatformDistances[result[2] + 1], <<15 * 15, 1>>)
    /\ Returned("find_wall_handle_at") =>
          IF result[2] = NoHandle
          THEN \A i \in 1..Len(call.walls), e \in 1..2 :
                  SqDist(call.pos, call.walls[i][e]) > 8 * 8
          ELSE SqDist(call.pos,
                      call.walls[result[2][1] + 1]
                                [IF result[2][2] = "start" THEN 1 ELSE 2])
                  <= 8 * 8

\* a platform at exactly the threshold is returned
PlatformAtExactlyTheThreshold ==
    /\ Returned("find_platform_at")
    /\ result[2] # NoIndex
    /\ CallPlatformDistances[result[2] + 1] = <<15 * 15, 1>>

\* C25 as stated: only candidates strictly inside the threshold are
\* returned; a candidate at exactly the threshold is not.
StrictlyInsideThreshold ==
    /\ (Returned("find_wall_at") /\ result[2] # NoIndex) =>
          FracLT(CallWallDistances[result[2] + 1], <<10 * 10, 1>>)
    /\ (Returned("find_platform_at") /\ result[2] # NoIndex) =>
          FracLT(CallPlatformDistances[result[2] + 1], <<15 * 15, 1>>)
    /\ (Returned("find_wall_handle_at") /\ result[2] # NoHandle) =>
          SqDist(call.pos,
                 call.walls[result[2][1] + 1]
                           [IF result[2][2] = "start" THEN 1 ELSE 2])
             < 8 * 8

\* C26: find_wall_handle_at returns the endpoint that is closest to the
\* point among all endpoints of all walls within the threshold.
HandleIsClosestEndpoint ==
    (Returned("find_wall_handle_at") /\ result[2] # NoHandle) =>
        \A i \in 1..Len(call.walls), e \in 1..2 :
            SqDist(call.pos,
                   call.walls[result[2][1] + 1]
                             [IF result[2][2] = "start" THEN 1 ELSE 2])
               <= SqDist(call.pos, call.walls[i][e])

\* loaded is a whole number and no whole number is nearer to orig (halves)
NearestInteger(loaded, orig) == loaded % 2 = 0 /\ loaded - orig \in -1..1

NearestPoint(loaded, orig) ==
    NearestInteger(loaded[1], orig[1]) /\ NearestInteger(loaded[2], orig[2])

\* what C27 says of the walls, platforms and conveyors that come back, and
\* of the emitter fields other than the position
ComesBackRounded(l) ==
    /\ ~l.raised
    /\ Len(l.walls) = Len(call.walls)
    /\ \A i \in 1..Len(l.walls) :
          /\ NearestPoint(l.walls[i][1], call.walls[i][1])
          /\ NearestPoint(l.walls[i][2], call.walls[i][2])
    /\ Len(l.platforms) = Len(call.platforms)
    /\ \A i \in 1..Len(l.platforms) :
          /\ NearestPoint(l.platforms[i].pos, call.platforms[i].pos)
          /\ l.platforms[i].angular_velocity = call.platforms[i].angular_velocity
    /\ Len(l.conveyors) = Len(call.conveyors)
    /\ \A i \in 1..Len(l.conveyors) :
          /\ NearestPoint(l.conveyors[i].start, call.conveyors[i].start)
          /\ NearestPoint(l.conveyors[i].end, call.conveyors[i].end)
          /\ l.conveyors[i].speed = call.conveyors[i].speed
    /\ l.emitter.angle = call.emitter.angle
    /\ l.emitter.width = call.emitter.width
    /\ l.emitter.rate = call.emitter.rate
    /\ l.emitter.count = call.emitter.count
    /\ l.emitter.speed = call.emitter.speed

\* C27 as amended: saving a level and loading it back yields the wall,
\* platform and conveyor coordinates rounded to the nearest integer, and
\* the emitter's angle, width, rate, count and speed with their original
\* values; the position of the emitter is rounded to the nearest integer
\* like the other coordinates.
RoundTripRoundsPositions ==
    Returned("save_load") =>
        /\ ComesBackRounded(result[2])
        /\ NearestPoint(result[2].emitter.pos, call.emitter.pos)

FractionalLevelCameBack ==
    /\ Returned("save_load")
    /\ result[2].emitter.pos # call.emitter.pos
    /\ result[2].emitter.rate = call.emitter.rate
    /\ call.walls # <<>>
    /\ result[2].walls # call.walls
    /\ call.conveyors # <<>>
    /\ call.platforms # <<>>

\* C27 as stated: the coordinates come back rounded and every emitter
\* field, the position included, with its original unrounded value.
RoundTripKeepsEmitter ==
    Returned("save_load") =>
        /\ ComesBackRounded(result[2])
        /\ result[2].emitter.pos = call.emitter.pos

\* C28: loading a document with missing or malformed fields does not
\* raise; it returns a complete level, with the default in the place of
\* every missing or malformed field of the emitter.
EmitterFieldOr(key, default, loaded) ==
    LET ed == DictGet(call.data, "emitter", JNone)
    IN IF ed.t = "obj" /\ key \in DOMAIN ed.fields /\ FloatOK(ed.fields[key])
       THEN TRUE
       ELSE loaded = default

LoadNeverRaises ==
    Returned("load_level") =>
        /\ ~result[2].raised
        /\ DOMAIN result[2] =
              {"raised", "name", "walls", "platforms", "emitter", "conveyors"}
        /\ DOMAIN result[2].emitter =
              {"pos", "angle", "width", "rate", "count", "speed"}
        /\ EmitterFieldOr("angle", 2 * 90, result[2].emitter.angle)
        /\ EmitterFieldOr("width", 2 * 60, result[2].emitter.width)
        /\ EmitterFieldOr("rate", 2 * 20, result[2].emitter.rate)
        /\ EmitterFieldOr("count", 100, result[2].emitter.count)
        /\ EmitterFieldOr("speed", 2 * 50, result[2].emitter.speed)

\* every slider value lies within [min_val, max_val]
SliderInRange ==
    /\ FracLE(<<call.slider.min_val, 1>>, call.value)
    /\ FracLE(call.value, <<call.slider.max_val, 1>>)

\* C29: after any sequence of input events every slider value lies within
\* [min_val, max_val], and the rate an emission scheduler divides by (the
\* race's comes from the Emit Rate slider, the preview's from the emitter
\* property fields) is strictly positive, so 1 / rate is defined.
ConfigValuesInRange ==
    /\ SliderInRange
    /\ call.slider.label = "Emit Rate" => FracLT(<<0, 1>>, call.value)
    /\ result # <<>> => result.rate > 0 /\ result.raised = "None"

\* the number C of allowed shape x colour combinations for the toggles
AllowedCombinations ==
    (IF call.rand_shape THEN Min(MaxPoolShapes, Len(shape_types)) ELSE 1)
        * (IF call.rand_color THEN Min(MaxPoolColors, Len(color_names)) ELSE 1)

\* the positions of the queue q that hold the combination of position i
SameCombination(q, i) ==
    {j \in 1..Len(q) : q[j].name[1] = q[i].name[1]}

\* C30: the pool holds exactly count definitions for every toggle setting;
\* when count exceeds the number C of combinations every combination
\* occurs floor(count / C) or floor(count / C) + 1 times and its marbles
\* carry the sequence numbers 1..k; the names are pairwise distinct in all
\* cases.
PoolBalancedAndNamed ==
    Returned("prepare_marble_queue_with_count") =>
        LET q == result[2]
            C == AllowedCombinations
        IN /\ Len(q) = call.count
           /\ \A i, j \in 1..Len(q) : i # j => q[i].name # q[j].name
           /\ call.count > C =>
                 /\ Cardinality({q[i].name[1] : i \in 1..Len(q)}) = C
                 /\ \A i \in 1..Len(q) :
                       /\ Cardinality(SameCombination(q, i))
                             \in {call.count \div C, (call.count \div C) + 1}
                       /\ {q[j].name[2] : j \in SameCombination(q, i)}
                             = 1..Cardinality(SameCombination(q, i))

DuplicatedPoolWithRemainder ==
    /\ Returned("prepare_marble_queue_with_count")
    /\ AllowedCombinations > 1
    /\ call.count > AllowedCombinations
    /\ call.count % AllowedCombinations # 0
    /\ result[2][1].name[1] = result[2][call.count].name[1]
    /\ result[2][call.count].name[2] > 1

\* C31: while snapping is enabled snap_point is idempotent for any point
\* and any cell size > 0 and each snapped coordinate is a multiple of the
\* cell size; while snapping is disabled it is the identity.
SnapIdempotent ==
    /\ Len(result) >= 1 =>
          IF call.enabled
          THEN result[1][1] % call.size = 0 /\ result[1][2] % call.size = 0
          ELSE result[1] = call.point
    /\ Len(result) = 2 => result[2] = result[1]

SnappedTwiceOffGrid ==
    /\ Len(result) = 2
    /\ call.enabled
    /\ call.size > 2
    /\ result[1][1] # call.point[1]
    /\ result[1][2] # call.point[2]
    /\ 2 * (call.point[1] % call.size) = call.size

\* C32: the preview is entered only from an editing mode; while the editor
\* is in preview an event other than Space/Escape leaves walls, platforms,
\* emitter, selection and both history stacks unchanged; Space or Escape
\* stops the preview and returns the editor to select mode.
PreviewIsInert ==
    [][/\ (mode' = "preview" /\ mode # "preview") => mode \in EditModes
       /\ mode = "preview" =>
             \/ /\ editorEvent' = "stop_preview"
                /\ mode' = "select"
                /\ UNCHANGED <<walls, platforms, objs, emitter,
                               undo_stack, redo_stack>>
             \/ /\ mode' = "preview"
                /\ UNCHANGED <<walls, platforms, objs, emitter, selected_wall,
                               selected_platform, selected_emitter,
                               selected_handle, undo_stack, redo_stack>>]_vars

EventIgnoredInPreview ==
    /\ mode = "preview"
    /\ editorEvent = "in_preview"
    /\ undo_stack # <<>>
    /\ selected_wall # NoIndex

ActiveMarbles == {i \in 1..Len(marbles) : marbles[i].active}

\* C33: whenever the state is finished no marble is active, the physics
\* world holds no marble body and len(finished_rank) equals marbles_emitted,
\* which is at most the marble count; finished_rank does not change while
\* the state stays finished.
FinishedIsSettled ==
    /\ [](state = "finished" =>
             /\ ActiveMarbles = {}
             /\ space_bodies = {}
             /\ Len(finished_rank) = marbles_emitted
             /\ marbles_emitted <= marble_count)
    /\ [][(state = "finished" /\ state' = "finished") =>
             finished_rank' = finished_rank]_vars

TimedOutRaceLeftOnScreen ==
    /\ state = "finished"
    /\ lastEvent = "finished_frame"
    /\ end_cause = "timeout"
    /\ marbles_emitted < marble_count
    /\ \E i \in 1..Len(marbles) : marbles[i].tied_for_last
    /\ \E i \in 1..Len(marbles) : ~marbles[i].tied_for_last

\* C34: in every running state marbles_emitted + len(marble_queue) equals
\* marble_count, len(marbles) equals marbles_emitted, and the number of
\* active marbles plus len(finished_rank) equals marbles_emitted.
MarblesConserved ==
    state = "running" =>
        /\ marbles_emitted + Len(marble_queue) = marble_count
        /\ Len(marbles) = marbles_emitted
        /\ Cardinality(ActiveMarbles) + Len(finished_rank) = marbles_emitted

QueuedActiveAndFinished ==
    /\ state = "running"
    /\ Len(marble_queue) = 1
    /\ Cardinality(ActiveMarbles) = 1
    /\ Len(finished_rank) = 1

\* C35: if ticks keep occurring and the clock keeps advancing, a running
\* race eventually leaves running (by finishing, a reset or entering edit),
\* and a tick at which the elapsed time is at least the time limit ends
\* the race.
RunningRaceEnds ==
    /\ (state = "running") ~> (state # "running")
    /\ [][(state = "running" /\ lastEvent' = "frame"
           /\ elapsed >= time_limit) => state' = "finished"]_vars

TimedOutBeforeAllEmitted ==
    /\ state = "finished"
    /\ lastEvent = "frame"
    /\ end_cause = "timeout"
    /\ marble_queue # <<>>
    /\ nticks >= 2
    /\ elapsed - MaxFrameTime < time_limit

\* C36: after any sequence of editor operations, undo() on a non-empty undo
\* stack completes without raising and moves exactly one command from the
\* undo stack to the redo stack, and redo() likewise on a non-empty redo
\* stack, so that no command is lost.
UndoRedoLoseNoCommand ==
    [][/\ (EvKeyUndo /\ undo_stack # <<>>) =>
             /\ ~raised'
             /\ undo_stack' = Pop(undo_stack)
             /\ Len(redo_stack') = Len(redo_stack) + 1
       /\ (EvKeyRedo /\ redo_stack # <<>>) =>
             /\ ~raised'
             /\ redo_stack' = Pop(redo_stack)
             /\ Len(undo_stack') = Len(undo_stack) + 1]_vars

\* C37: after any sequence of editor operations selected_wall is unset or
\* a valid index into walls, selected_platform is unset or a valid index
\* into platforms, and selected_handle refers to an existing wall, so that
\* delete_selected and drag_wall_handle never index past the end.
SelectionStaysValid ==
    /\ selected_wall \in {NoIndex} \cup (0..(Len(walls) - 1))
    /\ selected_platform \in {NoIndex} \cup (0..(Len(platforms) - 1))
    /\ selected_handle # NoHandle =>
          selected_handle[1] \in 0..(Len(walls) - 1)

\* C38: leaving edit mode keeps the Level Model as the in-game editor left
\* it: after the toggle back to ready level_walls and level_platforms equal
\* their values at the last edit, also when all walls were deleted or
\* cleared, and the walls of the physics world are rebuilt from them.
LeavingEditKeepsLevel ==
    [][(state = "edit" /\ state' = "ready") =>
          /\ level_walls' = level_walls
          /\ level_platforms' = level_platforms
          /\ space_walls' = level_walls]_vars

\* C39: loading a level in the standalone editor and saving it again
\* without editing preserves the level's conveyors: the saved document
\* holds the same conveyors (start, end, speed) as the document loaded.
EditorResaveKeepsConveyors ==
    (Returned("editor_load_save") /\ ~load_level_data(call.data).raised) =>
        load_level_data(result[2]).conveyors
            = load_level_data(call.data).conveyors

====
